---- MODULE Spec2Model ----
(***************************************************************************)
(* Model of the input-mask library (src/script.ts): the pattern compiler   *)
(* (parseMask) and the formatting engine (formatValue).                    *)
(*                                                                         *)
(* A JavaScript string is modelled as a sequence of one-character strings. *)
(* Positions in the engine are 0-based as in the source, so the character  *)
(* at cursor pos of input is input[pos + 1].                               *)
(***************************************************************************)
EXTENDS Integers, Sequences, FiniteSets, TLC

VARIABLES
    build,     \* the build of the library in use: "script.ts" or "part_000"
    pattern,   \* the pattern string given to Mask.create
    parsed,    \* the outcome of parseMask(pattern): the AST captured by the formatter
    log,       \* the diagnostics sent to console.error by that compile
    input,     \* the raw value of the latest format call
    masked,    \* the string returned by the latest format call
    mode,      \* the branch of formatValue the latest call took
    outs,      \* fragmentsOut of the latest call
    outcome,   \* "returned" or "threw" for the latest call
    pc,        \* "idle", "compiling", "parsed", "throwing", "failed" (create threw),
               \* "ready", "scanning", "formatted"
    stack,     \* the call stack of a format call that is run step by step
    ret        \* the value the latest callee returned to the frame on top

vars == <<build, pattern, parsed, log, input, masked, mode, outs, outcome, pc, stack, ret>>

(***************************************************************************)
(* Characters and character classes.                                       *)
(***************************************************************************)

\* /\d/ : the decimal digits
DigitChars == {"0", "1", "2", "3", "4", "5", "6", "7", "8", "9"}

\* /[A-Za-z\u0400-\u04FF]/ restricted to the letters the model uses
\* (Latin upper and lower case; the Cyrillic block behaves the same way).
LetterChars == {"A", "J", "S", "a", "b", "h", "i", "m", "n", "o", "t"}

\* /\s/ restricted to the white space the model uses: space and tab.
SpaceChars == {" ", "\t"}

DIGIT_RE(ch) == ch \in DigitChars

LETTER_RE(ch) == ch \in LetterChars

IsSpace(ch) == ch \in SpaceChars

\* Number.POSITIVE_INFINITY as the max of a {+} symbol
Infinity == -1

\* count <= max: the loop bound off by one
BelowMaxInclusive(count, max) == IF max = Infinity THEN TRUE ELSE count <= max

\* count < max, where max may be Infinity
BelowMax(count, max) == IF max = Infinity THEN TRUE ELSE count < max

\* the value field of a letter or digit symbol (undefined in the source)
Undefined == "undefined"

(***************************************************************************)
(* String helpers (JavaScript built-ins used by the source).               *)
(***************************************************************************)

\* s.slice(from, to) with 0 <= from, 0-based, to exclusive
Slice(s, from, to) ==
    IF to <= from THEN <<>> ELSE SubSeq(s, from + 1, IF to > Len(s) THEN Len(s) ELSE to)

\* input.startsWith(sep, pos)
StartsWith(s, sep, pos) ==
    /\ pos + Len(sep) <= Len(s)
    /\ \A k \in 1..Len(sep) : s[pos + k] = sep[k]

\* s.indexOf(ch, from) for a one-character needle; -1 when absent
IndexOf(s, ch, from) ==
    IF \E k \in from..(Len(s) - 1) : s[k + 1] = ch
    THEN CHOOSE k \in from..(Len(s) - 1) :
            /\ s[k + 1] = ch
            /\ \A j \in from..(k - 1) : s[j + 1] # ch
    ELSE -1

RECURSIVE Concat(_)
\* strings.join('')
Concat(ss) == IF ss = <<>> THEN <<>> ELSE Head(ss) \o Concat(Tail(ss))

RECURSIVE JoinWith(_, _)
\* strings.join(sep)
JoinWith(ss, sep) ==
    IF ss = <<>> THEN <<>>
    ELSE IF Len(ss) = 1 THEN ss[1]
    ELSE ss[1] \o sep \o JoinWith(Tail(ss), sep)

RECURSIVE TrimEnd(_)
\* s.trimEnd()
TrimEnd(s) ==
    IF s # <<>> /\ IsSpace(s[Len(s)]) THEN TrimEnd(SubSeq(s, 1, Len(s) - 1)) ELSE s

\* s.replace(/\s+$/, ' ')
ReplaceTrailingSpace(s) ==
    IF s # <<>> /\ IsSpace(s[Len(s)]) THEN TrimEnd(s) \o <<" ">> ELSE s

RECURSIVE SplitWords(_, _, _)
\* input.split(/\s+/).filter(Boolean): the maximal runs of non-space characters
SplitWords(s, k, cur) ==
    IF k > Len(s) THEN (IF cur = <<>> THEN <<>> ELSE <<cur>>)
    ELSE IF IsSpace(s[k])
         THEN (IF cur = <<>> THEN <<>> ELSE <<cur>>) \o SplitWords(s, k + 1, <<>>)
         ELSE SplitWords(s, k + 1, Append(cur, s[k]))

RECURSIVE InsertByLength(_, _)
\* insert sep after every element that is at least as long (stable order)
InsertByLength(sorted, sep) ==
    IF sorted = <<>> THEN <<sep>>
    ELSE IF Len(Head(sorted)) >= Len(sep)
         THEN <<Head(sorted)>> \o InsertByLength(Tail(sorted), sep)
         ELSE <<sep>> \o sorted

RECURSIVE SortLongestFirst(_, _)
\* seps.sort((a, b) => b.length - a.length), a stable sort
SortLongestFirst(seps, acc) ==
    IF seps = <<>> THEN acc
    ELSE SortLongestFirst(Tail(seps), InsertByLength(acc, Head(seps)))

\* separators.filter(Boolean)
FilterNonEmpty(seps) == SelectSeq(seps, LAMBDA s : s # <<>>)

(***************************************************************************)
(* Formatting engine.                                                      *)
(***************************************************************************)

\* matchesNode: does ch belong to the class of the symbol node
matchesNode(node, ch) ==
    IF node.kind = "A" THEN LETTER_RE(ch)
    ELSE IF node.kind = "0" THEN DIGIT_RE(ch)
    ELSE ch = node.value

RECURSIVE separatorLengthAt(_, _, _)
\* separatorLengthAt: length of the first listed separator found at pos, or 0
separatorLengthAt(inp, pos, separators) ==
    IF separators = <<>> THEN 0
    ELSE IF Head(separators) # <<>> /\ StartsWith(inp, Head(separators), pos)
         THEN Len(Head(separators))
         ELSE separatorLengthAt(inp, pos, Tail(separators))

\* canStartWithChar that looks at every node of the sequence, not at its first
canStartWithCharAnyNode(nodes, ch) ==
    \E k \in 1..Len(nodes) : nodes[k].type = "symbol" /\ matchesNode(nodes[k], ch)

\* canStartWithChar that does not search the alternatives of a leading group
canStartWithCharShallow(nodes, ch) ==
    /\ nodes # <<>>
    /\ nodes[1].type = "symbol"
    /\ matchesNode(nodes[1], ch)

RECURSIVE canStartWithChar(_, _)
\* canStartWithChar: could the first node of nodes consume ch
canStartWithChar(nodes, ch) ==
    IF nodes = <<>> THEN FALSE
    ELSE LET first == nodes[1] IN
         IF first.type = "symbol" THEN matchesNode(first, ch)
         ELSE IF first.type = "group"
              THEN \E a \in 1..Len(first.alternatives) :
                       canStartWithChar(first.alternatives[a], ch)
              ELSE FALSE

\* hasNonDigitSymbol that looks at the top-level symbols only
hasNonDigitSymbolShallow(nodes) ==
    \E k \in 1..Len(nodes) : nodes[k].type = "symbol" /\ nodes[k].kind # "0"

RECURSIVE hasNonDigitSymbol(_)
\* hasNonDigitSymbol: some symbol of nodes, at any depth, is not a digit symbol
hasNonDigitSymbol(nodes) ==
    \E k \in 1..Len(nodes) :
        IF nodes[k].type = "symbol" THEN nodes[k].kind # "0"
        ELSE \E a \in 1..Len(nodes[k].alternatives) :
                 hasNonDigitSymbol(nodes[k].alternatives[a])

\* a ConsumeResult
Result(out, pos, satisfied, advanced) ==
    [out |-> out, raw |-> out, pos |-> pos, satisfied |-> satisfied,
     advanced |-> advanced]

RECURSIVE SkipSeparators(_, _, _)
\* the separator-skip loop at the head of each consumeNodes iteration
SkipSeparators(inp, pos, separators) ==
    LET sepAhead == separatorLengthAt(inp, pos, separators) IN
    IF sepAhead > 0 THEN SkipSeparators(inp, pos + sepAhead, separators) ELSE pos

\* SymbolStep that leaves the loop at a character it cannot use instead of
\* skipping it
SymbolStepNoSkip(node, inp, startPos, separators, remainingNodes, out, pos, count) ==
    LET sepLen == separatorLengthAt(inp, pos, separators)
        ch == inp[pos + 1]
        leave(p) == [done |-> TRUE, out |-> out, pos |-> p, count |-> count,
                     result |-> Result(out, p, count >= node.min, pos - startPos)]
    IN  IF pos < Len(inp) /\ BelowMax(count, node.max)
        THEN IF sepLen > 0 THEN leave(pos + sepLen)
             ELSE IF matchesNode(node, ch)
             THEN [done |-> FALSE, out |-> Append(out, ch), pos |-> pos + 1,
                   count |-> count + 1, result |-> Result(out, pos + 1, FALSE, 0)]
             ELSE leave(pos)
        ELSE leave(pos)

\* SymbolStep with pos += 1 moved into the branch of a matching character: a
\* stray character is looked at again and again
SymbolStepStuck(node, inp, startPos, separators, remainingNodes, out, pos, count) ==
    LET sepLen == separatorLengthAt(inp, pos, separators)
        ch == inp[pos + 1]
        leave(p) == [done |-> TRUE, out |-> out, pos |-> p, count |-> count,
                     result |-> Result(out, p, count >= node.min, pos - startPos)]
    IN  IF pos < Len(inp) /\ BelowMax(count, node.max)
        THEN IF sepLen > 0 THEN leave(pos + sepLen)
             ELSE IF matchesNode(node, ch)
             THEN [done |-> FALSE, out |-> Append(out, ch), pos |-> pos + 1,
                   count |-> count + 1, result |-> Result(out, pos + 1, FALSE, 0)]
             ELSE IF count >= node.min /\ canStartWithChar(remainingNodes, ch)
             THEN leave(pos)
             ELSE [done |-> FALSE, out |-> out, pos |-> pos, count |-> count,
                   result |-> Result(out, pos, FALSE, 0)]
        ELSE leave(pos)

\* SymbolStep without the separator test: a separator at the cursor is read
\* like any other text
SymbolStepThroughSeparator(node, inp, startPos, separators, remainingNodes, out, pos, count) ==
    LET ch == inp[pos + 1]
        leave(p) == [done |-> TRUE, out |-> out, pos |-> p, count |-> count,
                     result |-> Result(out, p, count >= node.min, pos - startPos)]
        continue(o, c) == [done |-> FALSE, out |-> o, pos |-> pos + 1, count |-> c,
                           result |-> Result(o, pos + 1, FALSE, 0)]
    IN  IF pos < Len(inp) /\ BelowMax(count, node.max)
        THEN IF matchesNode(node, ch) THEN continue(Append(out, ch), count + 1)
             ELSE IF count >= node.min /\ canStartWithChar(remainingNodes, ch)
             THEN leave(pos)
             ELSE continue(out, count)
        ELSE leave(pos)

\* SymbolStep that puts the character of a literal symbol in the place of a
\* character that is not that literal
SymbolStepInsertsLiteral(node, inp, startPos, separators, remainingNodes, out, pos, count) ==
    LET sepLen == separatorLengthAt(inp, pos, separators)
        ch == inp[pos + 1]
        leave(p) == [done |-> TRUE, out |-> out, pos |-> p, count |-> count,
                     result |-> Result(out, p, count >= node.min, pos - startPos)]
        continue(o, c) == [done |-> FALSE, out |-> o, pos |-> pos + 1, count |-> c,
                           result |-> Result(o, pos + 1, FALSE, 0)]
    IN  IF pos < Len(inp) /\ BelowMax(count, node.max)
        THEN IF sepLen > 0 THEN leave(pos + sepLen)
             ELSE IF matchesNode(node, ch) THEN continue(Append(out, ch), count + 1)
             ELSE IF node.kind \notin {"A", "0"}
             THEN continue(Append(out, node.value), count + 1)
             ELSE IF count >= node.min /\ canStartWithChar(remainingNodes, ch)
             THEN leave(pos)
             ELSE continue(out, count)
        ELSE leave(pos)

\* one evaluation of the loop condition and body of the while loop of
\* consumeSymbol in loop state (out, pos, count): either the loop is left
\* (done, with the returned result) or the next loop state
SymbolStep(node, inp, startPos, separators, remainingNodes, out, pos, count) ==
    LET sepLen == separatorLengthAt(inp, pos, separators)
        ch == inp[pos + 1]
        leave(p) == [done |-> TRUE, out |-> out, pos |-> p, count |-> count,
                     result |-> Result(out, p, count >= node.min, pos - startPos)]
        continue(o, c) == [done |-> FALSE, out |-> o, pos |-> pos + 1, count |-> c,
                           result |-> Result(o, pos + 1, FALSE, 0)]
    IN  IF pos < Len(inp) /\ BelowMax(count, node.max)
        THEN IF sepLen > 0 THEN leave(pos + sepLen)
             ELSE IF matchesNode(node, ch) THEN continue(Append(out, ch), count + 1)
             ELSE IF count >= node.min /\ canStartWithChar(remainingNodes, ch)
             THEN leave(pos)
             ELSE continue(out, count)
        ELSE leave(pos)

RECURSIVE SymbolLoop(_, _, _, _, _, _, _, _)
\* after one step s of the while loop of consumeSymbol: return or iterate
SymbolAfter(node, inp, startPos, separators, remainingNodes, s) ==
    IF s.done THEN s.result
    ELSE SymbolLoop(node, inp, startPos, separators, remainingNodes,
                    s.out, s.pos, s.count)

\* the while loop of consumeSymbol, from loop state (out, pos, count)
SymbolLoop(node, inp, startPos, separators, remainingNodes, out, pos, count) ==
    SymbolAfter(node, inp, startPos, separators, remainingNodes,
                SymbolStep(node, inp, startPos, separators, remainingNodes,
                           out, pos, count))

\* consumeSymbol
consumeSymbol(node, inp, startPos, separators, remainingNodes) ==
    SymbolLoop(node, inp, startPos, separators, remainingNodes, <<>>, startPos, 0)

\* "better" that puts a satisfied result before a longer one
BetterSatisfiedFirst(result, best) ==
    \/ (result.satisfied /\ ~best.satisfied)
    \/ (result.satisfied = best.satisfied /\ Len(result.raw) > Len(best.raw))
    \/ (result.satisfied = best.satisfied /\ Len(result.raw) = Len(best.raw)
        /\ result.advanced < best.advanced)

\* the comparison "better" of consumeGroup
Better(result, best) ==
    \/ Len(result.raw) > Len(best.raw)
    \/ (Len(result.raw) = Len(best.raw) /\ result.advanced < best.advanced)
    \/ (Len(result.raw) = Len(best.raw) /\ result.advanced = best.advanced
        /\ result.satisfied /\ ~best.satisfied)

\* InitialBest with the satisfied flag set
InitialBestSatisfied(startPos) == Result(<<>>, startPos, TRUE, 0)

\* the initial value of best in consumeGroup
InitialBest(startPos) == Result(<<>>, startPos, FALSE, 0)

\* nodes.slice(i + 1) joined with the tail, for the node at 1-based index i
Lookahead(nodes, i, tailNodes) ==
    LET remaining == SubSeq(nodes, i + 1, Len(nodes)) IN
    IF Len(tailNodes) > 0 THEN remaining \o tailNodes ELSE remaining

RECURSIVE consumeNodes(_, _, _, _, _)
RECURSIVE NodesLoop(_, _, _, _, _, _, _, _)
RECURSIVE NodesAfter(_, _, _, _, _, _, _, _)
RECURSIVE consumeGroup(_, _, _, _, _)
RECURSIVE GroupLoop(_, _, _, _, _, _, _)

\* consumeNode: dispatch on the node type
consumeNode(node, inp, startPos, separators, remainingNodes) ==
    IF node.type = "symbol"
    THEN consumeSymbol(node, inp, startPos, separators, remainingNodes)
    ELSE IF node.type = "group"
    THEN consumeGroup(node, inp, startPos, separators, remainingNodes)
    ELSE Result(<<>>, startPos, FALSE, 0)

\* the rest of an iteration of the for loop of consumeNodes, once the node at
\* index i has returned result: accumulate, then break or iterate
NodesAfter(nodes, inp, startPos, separators, tailNodes, i, out, result) ==
    IF ~result.satisfied
    THEN Result(out \o result.out, result.pos, FALSE, result.pos - startPos)
    ELSE NodesLoop(nodes, inp, startPos, separators, tailNodes,
                   i + 1, out \o result.out, result.pos)

\* the for loop of consumeNodes, from iteration i (1-based) with state (out, pos)
NodesLoop(nodes, inp, startPos, separators, tailNodes, i, out, pos) ==
    IF i > Len(nodes) THEN Result(out, pos, TRUE, pos - startPos)
    ELSE NodesAfter(nodes, inp, startPos, separators, tailNodes, i, out,
                    consumeNode(nodes[i], inp, SkipSeparators(inp, pos, separators),
                                separators, Lookahead(nodes, i, tailNodes)))

\* consumeNodes
consumeNodes(nodes, inp, startPos, separators, tailNodes) ==
    NodesLoop(nodes, inp, startPos, separators, tailNodes, 1, <<>>, startPos)

\* if (better) best = result
Pick(result, best) == IF Better(result, best) THEN result ELSE best

\* the for loop of consumeGroup over the alternatives, from alternative a
GroupLoop(node, inp, startPos, separators, tailNodes, a, best) ==
    IF a > Len(node.alternatives) THEN best
    ELSE GroupLoop(node, inp, startPos, separators, tailNodes, a + 1,
                   Pick(consumeNodes(node.alternatives[a], inp, startPos,
                                     separators, tailNodes),
                        best))

\* consumeGroup
consumeGroup(node, inp, startPos, separators, tailNodes) ==
    GroupLoop(node, inp, startPos, separators, tailNodes, 1, InitialBest(startPos))

RECURSIVE JoinLoopDanglingSeparator(_, _, _, _)
\* joinWithSeparators without the test of the next part
JoinLoopDanglingSeparator(fragmentOutputs, separators, i, output) ==
    IF i >= Len(fragmentOutputs) THEN output
    ELSE LET part == fragmentOutputs[i + 1] IN
         IF part = <<>> THEN output
         ELSE JoinLoopDanglingSeparator(fragmentOutputs, separators, i + 1,
                  IF i < Len(separators)
                  THEN output \o part \o separators[i + 1]
                  ELSE output \o part)

RECURSIVE JoinLoop(_, _, _, _)
\* the for loop of joinWithSeparators, from index i (0-based)
JoinLoop(fragmentOutputs, separators, i, output) ==
    IF i >= Len(fragmentOutputs) THEN output
    ELSE LET part == fragmentOutputs[i + 1] IN
         IF part = <<>> THEN output
         ELSE JoinLoop(fragmentOutputs, separators, i + 1,
                  IF /\ i < Len(separators)
                     /\ i + 1 < Len(fragmentOutputs)
                     /\ fragmentOutputs[i + 2] # <<>>
                  THEN output \o part \o separators[i + 1]
                  ELSE output \o part)

\* joinWithSeparators
joinWithSeparators(fragmentOutputs, separators) ==
    JoinLoop(fragmentOutputs, separators, 0, <<>>)

(***************************************************************************)
(* Pattern compiler.  A thrown MaskError is modelled by a result record    *)
(* with ok = FALSE and the message in error.                               *)
(***************************************************************************)

\* the value null / undefined, passed as a pattern or as a raw value
Null == <<"null-value">>

\* s[i] of JavaScript: the character at 0-based index i, undefined past the end
CharAt(s, i) == IF i >= 0 /\ i < Len(s) THEN s[i + 1] ELSE Undefined

\* Number(ch) for one decimal digit
DigitValue(ch) ==
    CASE ch = "0" -> 0 [] ch = "1" -> 1 [] ch = "2" -> 2 [] ch = "3" -> 3
      [] ch = "4" -> 4 [] ch = "5" -> 5 [] ch = "6" -> 6 [] ch = "7" -> 7
      [] ch = "8" -> 8 [] ch = "9" -> 9

RECURSIVE ToNumber(_, _)
\* Number(body) for a body of decimal digits
ToNumber(body, acc) ==
    IF body = <<>> THEN acc ELSE ToNumber(Tail(body), 10 * acc + DigitValue(Head(body)))

\* the test of the body with /^\d+$/, which lets a leading zero through
IsPositiveIntegerOrZero(body) ==
    /\ body # <<>>
    /\ \A k \in 1..Len(body) : body[k] \in DigitChars

\* /^[1-9]\d*$/.test(body)
IsPositiveInteger(body) ==
    /\ body # <<>>
    /\ body[1] \in DigitChars \ {"0"}
    /\ \A k \in 1..Len(body) : body[k] \in DigitChars

RECURSIVE TextOf(_)
\* `${s}` in a template literal: the characters of s as one piece of text
TextOf(s) == IF s = <<>> THEN "" ELSE Head(s) \o TextOf(Tail(s))

\* makeSymbolNode
makeSymbolNode(ch) ==
    IF ch \in {":", "{", "}", "|", "]"}
    THEN [ok |-> FALSE, error |-> "Unexpected symbol \"" \o ch \o "\"", node |-> <<>>]
    ELSE IF ch = "["
    THEN [ok |-> FALSE, error |-> "Unexpected \"[\" without pair", node |-> <<>>]
    ELSE [ok |-> TRUE, error |-> "",
          node |-> [type |-> "symbol",
                    kind |-> IF ch = "A" THEN "A" ELSE IF ch = "0" THEN "0" ELSE "literal",
                    value |-> IF ch = "A" \/ ch = "0" THEN Undefined ELSE ch,
                    min |-> 1, max |-> 1]]

\* parseQuantifier: the text after "{" at startIndex up to the next "}"
parseQuantifier(fragment, startIndex) ==
    LET end == IndexOf(fragment, "}", startIndex)
        body == Slice(fragment, startIndex, end)
        failed(msg) == [ok |-> FALSE, error |-> msg, min |-> 0, max |-> 0, nextIndex |-> 0]
    IN  IF end = -1 THEN failed("Unclosed quantifier")
        ELSE IF Len(body) = 0 THEN failed("Empty quantifier \"{}\" is invalid")
        ELSE IF body = <<"+">>
        THEN [ok |-> TRUE, error |-> "", min |-> 1, max |-> Infinity, nextIndex |-> end + 1]
        ELSE IF ~IsPositiveInteger(body) THEN failed("Invalid quantifier \"" \o TextOf(body) \o "\"")
        ELSE [ok |-> TRUE, error |-> "", min |-> ToNumber(body, 0),
              max |-> ToNumber(body, 0), nextIndex |-> end + 1]

\* makeSymbolNode(ch) followed by the optional quantifier, as both parseFragment
\* and parseGroup do for a plain character at index i
ParseSymbol(fragment, i) ==
    LET made == makeSymbolNode(fragment[i + 1])
        q == parseQuantifier(fragment, i + 2)
    IN  IF ~made.ok THEN [ok |-> FALSE, error |-> made.error, node |-> <<>>, i |-> i]
        ELSE IF CharAt(fragment, i + 1) = "{"
        THEN IF ~q.ok THEN [ok |-> FALSE, error |-> q.error, node |-> <<>>, i |-> i]
             ELSE [ok |-> TRUE, error |-> "",
                   node |-> [made.node EXCEPT !.min = q.min, !.max = q.max],
                   i |-> q.nextIndex]
        ELSE [ok |-> TRUE, error |-> "", node |-> made.node, i |-> i + 1]

\* the test of an alternative that accepts an alternative without nodes
IsEmptyAlternativeNever(current) == FALSE

\* current.length === 0 at a "|" or at the closing "]]" of a group
IsEmptyAlternative(current) == Len(current) = 0

RECURSIVE parseGroup(_, _, _, _)
\* parseGroup: the loop of the nested function, from scan index i with the
\* alternatives closed so far and the current alternative
parseGroup(fragment, i, alternatives, current) ==
    LET currentChar == CharAt(fragment, i)
        lookahead == CharAt(fragment, i + 1)
        failed(msg) == [ok |-> FALSE, error |-> msg, node |-> <<>>, i |-> i]
    IN  IF i >= Len(fragment) THEN failed("Unclosed group \"[[\"")
        ELSE IF currentChar = ":" /\ lookahead # Undefined
        THEN failed("Separators are not allowed inside groups")
        ELSE IF currentChar = "[" /\ lookahead = "["
        THEN LET inner == parseGroup(fragment, i + 2, <<>>, <<>>) IN
             IF ~inner.ok THEN inner
             ELSE parseGroup(fragment, inner.i, alternatives, Append(current, inner.node))
        ELSE IF currentChar = "|"
        THEN IF IsEmptyAlternative(current) THEN failed("Empty alternative in group")
             ELSE parseGroup(fragment, i + 1, Append(alternatives, current), <<>>)
        ELSE IF currentChar = "]" /\ lookahead = "]"
        THEN IF IsEmptyAlternative(current) THEN failed("Empty alternative in group")
             ELSE [ok |-> TRUE, error |-> "",
                   node |-> [type |-> "group",
                             alternatives |-> Append(alternatives, current)],
                   i |-> i + 2]
        ELSE IF currentChar \in {"]", "{", "}"} THEN failed("Unexpected symbol \"" \o currentChar \o "\" in group")
        ELSE LET sym == ParseSymbol(fragment, i) IN
             IF ~sym.ok THEN failed(sym.error)
             ELSE parseGroup(fragment, sym.i, alternatives, Append(current, sym.node))

RECURSIVE FragmentLoop(_, _, _)
\* the while loop of parseFragment, from scan index i with the nodes so far
FragmentLoop(fragment, i, nodes) ==
    LET ch == CharAt(fragment, i)
        next == CharAt(fragment, i + 1)
        failed(msg) == [ok |-> FALSE, error |-> msg, nodes |-> <<>>]
    IN  IF i >= Len(fragment) THEN [ok |-> TRUE, error |-> "", nodes |-> nodes]
        ELSE IF ch = "[" /\ next = "["
        THEN LET g == parseGroup(fragment, i + 2, <<>>, <<>>) IN
             IF ~g.ok THEN failed(g.error)
             ELSE IF CharAt(fragment, g.i) = "{"
             THEN failed("Quantifiers cannot be applied to groups")
             ELSE FragmentLoop(fragment, g.i, Append(nodes, g.node))
        ELSE IF ch = "]" THEN failed("Unexpected closing bracket")
        ELSE IF ch = "|" THEN failed("Unexpected \"|\" outside a group")
        ELSE LET sym == ParseSymbol(fragment, i) IN
             IF ~sym.ok THEN failed(sym.error)
             ELSE FragmentLoop(fragment, sym.i, Append(nodes, sym.node))

\* parseFragment
parseFragment(fragment) == FragmentLoop(fragment, 0, <<>>)

\* the separator text taken from the opening colon on
SeparatorTextWithColon(pat, i, end) == Slice(pat, i, end)

\* pattern.slice(i + 1, end): the text between the colon at i and the colon at end
SeparatorText(pat, i, end) == Slice(pat, i + 1, end)

\* the test of a fragment that accepts a fragment without text
IsEmptyFragmentNever(current) == FALSE

\* !current: the text collected for the fragment is empty
IsEmptyFragment(current) == Len(current) = 0

RECURSIVE SplitLoop(_, _, _, _, _, _)
\* the for loop of splitBySeparators and the checks after it
SplitLoop(pat, i, fragments, separators, current, depth) ==
    LET ch == CharAt(pat, i)
        next == CharAt(pat, i + 1)
        end == IndexOf(pat, ":", i + 1)
        failed(msg) == [ok |-> FALSE, error |-> msg, fragments |-> <<>>, separators |-> <<>>]
    IN  IF i >= Len(pat)
        THEN IF depth # 0 THEN failed("Unclosed group \"[[\"")
             ELSE IF IsEmptyFragment(current) THEN failed("Empty fragment at end of pattern")
             ELSE [ok |-> TRUE, error |-> "", fragments |-> Append(fragments, current),
                   separators |-> separators]
        ELSE IF ch = "[" /\ next = "["
        THEN SplitLoop(pat, i + 2, fragments, separators, current \o <<"[", "[">>, depth + 1)
        ELSE IF ch = "]" /\ next = "]"
        THEN IF depth = 0 THEN failed("Unmatched closing group \"]]\"")
             ELSE SplitLoop(pat, i + 2, fragments, separators, current \o <<"]", "]">>,
                            depth - 1)
        ELSE IF ch = ":" /\ depth = 0
        THEN IF end = -1 THEN failed("Separator must be closed with \":\"")
             ELSE IF IsEmptyFragment(current) THEN failed("Empty fragment before separator")
             ELSE SplitLoop(pat, end + 1, Append(fragments, current),
                            Append(separators, SeparatorText(pat, i, end)), <<>>, depth)
        ELSE IF ch = ":" /\ depth > 0
        THEN failed("Separators are not allowed inside groups")
        ELSE SplitLoop(pat, i + 1, fragments, separators, Append(current, ch), depth)

\* splitBySeparators
splitBySeparators(pat) == SplitLoop(pat, 0, <<>>, <<>>, <<>>, 0)

RECURSIVE MapParseFragment(_, _)
\* rawFragments.map(parseFragment): the first failing fragment aborts the map
MapParseFragment(rawFragments, acc) ==
    IF rawFragments = <<>> THEN [ok |-> TRUE, error |-> "", fragments |-> acc]
    ELSE LET r == parseFragment(Head(rawFragments)) IN
         IF ~r.ok THEN [ok |-> FALSE, error |-> r.error, fragments |-> <<>>]
         ELSE MapParseFragment(Tail(rawFragments), Append(acc, r.nodes))

\* parseMask going on to the fragments after a failure of splitBySeparators
parseMaskThroughSplitFailure(pat) ==
    LET failed(msg) == [ok |-> FALSE, error |-> msg, fragments |-> <<>>, separators |-> <<>>]
        split == splitBySeparators(pat)
        frags == MapParseFragment(split.fragments, <<>>)
    IN  IF pat = Null \/ Len(pat) = 0 THEN failed("Pattern must be a non-empty string")
        ELSE IF ~frags.ok THEN failed(frags.error)
        ELSE [ok |-> TRUE, error |-> "", fragments |-> frags.fragments,
              separators |-> split.separators]

\* parseMask
parseMask(pat) ==
    LET failed(msg) == [ok |-> FALSE, error |-> msg, fragments |-> <<>>, separators |-> <<>>]
        split == splitBySeparators(pat)
        frags == MapParseFragment(split.fragments, <<>>)
    IN  IF pat = Null \/ Len(pat) = 0 THEN failed("Pattern must be a non-empty string")
        ELSE IF ~split.ok THEN split
        ELSE IF ~frags.ok THEN failed(frags.error)
        ELSE [ok |-> TRUE, error |-> "", fragments |-> frags.fragments,
              separators |-> split.separators]

(***************************************************************************)
(* formatValue                                                             *)
(***************************************************************************)

\* rawValue == null ? '' : String(rawValue), for null and for strings
ToInput(rawValue) == IF rawValue = Null THEN <<>> ELSE rawValue

\* manualSpaceMask that accepts any separator made of spaces only
manualSpaceMaskBlank(p) ==
    /\ Len(p.separators) > 0
    /\ \A k \in 1..Len(p.separators) :
           \A j \in 1..Len(p.separators[k]) : p.separators[k][j] = " "
    /\ \E f \in 1..Len(p.fragments) : hasNonDigitSymbol(p.fragments[f])

\* the condition manualSpaceMask of formatValue
manualSpaceMask(p) ==
    /\ Len(p.separators) > 0
    /\ \A k \in 1..Len(p.separators) : p.separators[k] = <<" ">>
    /\ \E f \in 1..Len(p.fragments) : hasNonDigitSymbol(p.fragments[f])

\* array[i] of JavaScript: the element at 0-based index i, undefined past the end
ElementAt(array, i) ==
    IF i >= 0 /\ i < Len(array) THEN [defined |-> TRUE, value |-> array[i + 1]]
    ELSE [defined |-> FALSE, value |-> <<>>]

\* parts[i] without the default
ValuePartNoDefault(parts, i) == ElementAt(parts, i)

\* parts[i] ?? ''
ValuePart(parts, i) ==
    IF ElementAt(parts, i).defined THEN ElementAt(parts, i)
    ELSE [defined |-> TRUE, value |-> <<>>]

RECURSIVE ManualLoop(_, _, _, _)
\* ManualAfter without the break at an unsatisfied fragment
ManualAfterNoBreak(p, parts, i, fragmentsOut, result) ==
    ManualLoop(p, parts, i + 1, Append(fragmentsOut, result.out))

\* the rest of an iteration of the manual-space fragment loop, once fragment i
\* has returned result: push its output, then break or iterate
ManualAfter(p, parts, i, fragmentsOut, result) ==
    IF ~result.satisfied
    THEN [outs |-> Append(fragmentsOut, result.out), threw |-> FALSE]
    ELSE ManualLoop(p, parts, i + 1, Append(fragmentsOut, result.out))

\* the fragment loop of the manual-space branch: the outputs of the fragments
\* (nodes.length and input.length raise a TypeError on undefined)
ManualLoop(p, parts, i, fragmentsOut) ==
    IF i >= Len(p.fragments) THEN [outs |-> fragmentsOut, threw |-> FALSE]
    ELSE IF ~ElementAt(p.fragments, i).defined \/ ~ValuePart(parts, i).defined
    THEN [outs |-> fragmentsOut, threw |-> TRUE]
    ELSE ManualAfter(p, parts, i, fragmentsOut,
                     consumeNodes(ElementAt(p.fragments, i).value,
                                  ValuePart(parts, i).value, 0, <<>>, <<>>))

\* the end of the manual-space branch without the trimEnd of the else branch
ManualResultNoTrim(loop, hasTrailingSpace) ==
    [raw |-> Concat(loop.outs),
     masked |-> ReplaceTrailingSpace(JoinWith(loop.outs, <<" ">>)),
     outs |-> loop.outs,
     mode |-> "manual",
     threw |-> loop.threw]

\* the end of the manual-space branch: join, trailing-space handling, return
ManualResult(loop, hasTrailingSpace) ==
    [raw |-> Concat(loop.outs),
     masked |-> IF hasTrailingSpace
                THEN ReplaceTrailingSpace(JoinWith(loop.outs, <<" ">>))
                ELSE TrimEnd(JoinWith(loop.outs, <<" ">>)),
     outs |-> loop.outs,
     mode |-> "manual",
     threw |-> loop.threw]

\* the manual-space branch of formatValue
FormatManual(p, inp) ==
    ManualResult(ManualLoop(p, SplitWords(inp, 1, <<>>), 0, <<>>),
                 inp # <<>> /\ IsSpace(inp[Len(inp)]))

\* sepList left in the order of the pattern
SepListInPatternOrder(separators) == FilterNonEmpty(separators)

\* the arrays that line 307 of formatValue works on: the array held by
\* parsed.separators and the array that filter creates
ArrayRefs == {"parsed.separators", "filtered"}

\* the arrays at the entry of line 307: parsed.separators holds separators and
\* the array of filter does not exist yet
ArraysAtEntry(separators) ==
    [ref \in ArrayRefs |-> IF ref = "parsed.separators" THEN separators ELSE <<>>]

\* filter(Boolean) that removes the elements from the array it is called on
\* and returns that array
ArrayFilterInPlace(arrays, receiver) ==
    [arrays |-> [arrays EXCEPT ![receiver] = FilterNonEmpty(@)], ref |-> receiver]

\* Array.prototype.filter(Boolean) called on the array receiver: the elements
\* that pass go to a new array, which is returned; the receiver is not touched
ArrayFilter(arrays, receiver) ==
    [arrays |-> [arrays EXCEPT !["filtered"] = FilterNonEmpty(arrays[receiver])],
     ref |-> "filtered"]

\* Array.prototype.sort((a, b) => b.length - a.length) called on the array
\* receiver: the receiver itself is reordered, and returned
ArraySort(arrays, receiver) ==
    [arrays |-> [arrays EXCEPT ![receiver] = SortLongestFirst(@, <<>>)], ref |-> receiver]

\* separators.filter(Boolean).sort(...): the arrays after line 307 and the
\* array that sepList is bound to (part_000 sorts a slice() of the filtered
\* array, one more copy with the same elements)
SepListCall(separators) ==
    ArraySort(ArrayFilter(ArraysAtEntry(separators), "parsed.separators").arrays,
              ArrayFilter(ArraysAtEntry(separators), "parsed.separators").ref)

\* sepList of formatValue
SepList(separators) == SepListCall(separators).arrays[SepListCall(separators).ref]

\* parsed.fragments[i + 1] as the tail argument (undefined is passed as no tail)
TailAt(p, i) == ElementAt(p.fragments, i + 1).value

RECURSIVE ContiguousLoop(_, _, _, _, _, _)
\* ContiguousAfter without the break at an unsatisfied fragment
ContiguousAfterNoBreak(p, inp, sepList, i, fragmentsOut, result) ==
    ContiguousLoop(p, inp, sepList, i + 1, result.pos, Append(fragmentsOut, result.out))

\* the rest of an iteration of the contiguous fragment loop, once fragment i
\* has returned result: push its output, move pos, then break or iterate
ContiguousAfter(p, inp, sepList, i, fragmentsOut, result) ==
    IF ~result.satisfied
    THEN [outs |-> Append(fragmentsOut, result.out), threw |-> FALSE]
    ELSE ContiguousLoop(p, inp, sepList, i + 1, result.pos,
                        Append(fragmentsOut, result.out))

\* the fragment loop of the contiguous branch: the outputs of the fragments
\* (nodes.length raises a TypeError on undefined)
ContiguousLoop(p, inp, sepList, i, pos, fragmentsOut) ==
    IF i >= Len(p.fragments) THEN [outs |-> fragmentsOut, threw |-> FALSE]
    ELSE IF ~ElementAt(p.fragments, i).defined
    THEN [outs |-> fragmentsOut, threw |-> TRUE]
    ELSE ContiguousAfter(p, inp, sepList, i, fragmentsOut,
                         consumeNodes(ElementAt(p.fragments, i).value, inp, pos,
                                      sepList, TailAt(p, i)))

\* the end of the contiguous branch: join and return
ContiguousResult(loop, separators) ==
    [raw |-> Concat(loop.outs),
     masked |-> joinWithSeparators(loop.outs, separators),
     outs |-> loop.outs,
     mode |-> "contiguous",
     threw |-> loop.threw]

\* the array held by parsed.separators once sepList is built
SeparatorsAfter(separators) == SepListCall(separators).arrays["parsed.separators"]

\* the contiguous branch of formatValue
FormatContiguous(p, inp) ==
    ContiguousResult(ContiguousLoop(p, inp, SepList(p.separators), 0, 0, <<>>),
                     SeparatorsAfter(p.separators))

\* formatValue
formatValue(p, rawValue) ==
    IF manualSpaceMask(p) THEN FormatManual(p, ToInput(rawValue))
    ELSE FormatContiguous(p, ToInput(rawValue))

\* the AST captured by the formatter, as a formatValue call leaves it
ParsedAfter(p, rawValue) ==
    IF manualSpaceMask(p) THEN p
    ELSE [p EXCEPT !.separators = SeparatorsAfter(p.separators)]

(***************************************************************************)
(* Bounds and the patterns and raw values the model explores.              *)
(***************************************************************************)

\* longest raw value typed key by key for an ordinary pattern
MaxLen == 4

\* longest run of digits typed for the pattern 0{3}:-:0{2}
MaxDigits == 6

\* most digits typed for the card-number pattern
MaxCardDigits == 17

\* most white-space characters typed for the card-number pattern
MaxSpaces == 3

PatDigits == <<"0", "{", "3", "}", ":", "-", ":", "0", "{", "2", "}">>

PatCard == <<"0", "{", "4", "}", ":", "-", ":", "0", "{", "4", "}", ":", "-", ":",
             "0", "{", "4", "}", ":", "-", ":", "0", "{", "4", "}">>

PatNameTwoSpaces == <<"A", "{", "+", "}", ":", " ", " ", ":", "A", "{", "+", "}">>

PatNameOneSpace == <<"A", "{", "+", "}", ":", " ", ":", "A", "{", "+", "}">>

PatLetters == <<"A", "{", "+", "}">>

PatDigitWords == <<"0", "{", "2", "}", ":", " ", ":", "0", "{", "2", "}">>

PatMixedSeps == <<"A", ":", " ", ":", "0", ":", "-", ":", "0">>

PatNestedLiteral == <<"[", "[", "0", "|", "[", "[", "0", "-", "]", "]", "]", "]",
                      ":", " ", ":", "0">>

PatLongAlt == <<"[", "[", "0", "|", "0", "0", "A", "]", "]">>

PatAdvance == <<"[", "[", "0", "A", "|", "0", "]", "]", "A">>

PatSatisfied == <<"[", "[", "0", "0", "|", "0", "]", "]", ":", "-", ":", "A">>

PatQuantifier == <<"0", "{", "2", "}", "A", "{", "+", "}", "-", "0">>

PatPlusSep == <<"A", "{", "+", "}", ":", "-", ":", "0", "{", "2", "}">>

PatEmptySep == <<"0", "{", "2", "}", ":", ":", "A">>

PatTwoSeps == <<"0", ":", "-", ":", "0", ":", "-", "-", ":", "0">>

PatManualCount == <<"A", "{", "2", "}", ":", " ", ":", "0", "{", "+", "}", ":", " ", ":", "A">>

PatSeparatorPrefix == <<"0", "{", "2", "}", ":", "-", ":", "0", ":", "-", "-", ":", "0">>

PatThreeTail == <<"0", "{", "+", "}", ":", "-", ":", "0", ":", "-", ":", "+">>

PatTwoFours == <<"0", "{", "4", "}", ":", "-", ":", "0", "{", "4", "}">>

SeparatorEarly == <<"1", "2", "-", "3", "4", "5", "6">>

PatGroupSkip == <<"A", "{", "+", "}", "[", "[", "0", "A", "|", "A", "0", "{", "2", "}", "]", "]",
                  "0", "{", "2", "}">>

BadEmptyAlternative == <<"[", "[", "A", "|", "]", "]">>

BadZeroQuantifier == <<"A", "{", "0", "}">>

BadLeadingSeparator == <<":", "-", ":", "0">>

BadTrailingSeparator == <<"0", ":", "-", ":">>

BadUnclosedGroup == <<"[", "[", "0">>

BadGroupQuantifier == <<"[", "[", "0", "]", "]", "{", "2", "}">>

JohnSmith == <<"J", "o", "h", "n", " ", "S", "m", "i", "t", "h">>

CardExample == <<"4", "1", "1", "1", " ", "1", "1", "1", "1", " ",
                 "1", "1", "1", "1", " ", "1", "1", "1", "1">>

ThreeWords == <<"a", " ", "b", " ", "a">>

DigitsExample == <<"1", "2", "3", "4", "5", "6">>

\* Each entry: a pattern, the keys typed into its field, the longest typed
\* value, the most white-space characters typed, and the values pasted whole.
Catalogue ==
    { [pat |-> PatDigits, keys |-> {"1", "2", "-"}, len |-> MaxDigits,
       spaces |-> 0, pasted |-> {DigitsExample}],
      [pat |-> PatCard, keys |-> {"1", " "}, len |-> MaxCardDigits + MaxSpaces,
       spaces |-> MaxSpaces, pasted |-> {CardExample}],
      [pat |-> PatNameTwoSpaces, keys |-> {"a", "b", " "}, len |-> MaxLen,
       spaces |-> MaxLen, pasted |-> {JohnSmith}],
      [pat |-> PatNameOneSpace, keys |-> {"a", "1", " ", "\t"}, len |-> MaxLen,
       spaces |-> MaxLen, pasted |-> {JohnSmith, ThreeWords}],
      [pat |-> PatLetters, keys |-> {"a", "b", "1", " "}, len |-> MaxLen,
       spaces |-> MaxLen, pasted |-> {JohnSmith}],
      [pat |-> PatDigitWords, keys |-> {"1", "2", "a", " "}, len |-> MaxLen,
       spaces |-> MaxLen, pasted |-> {}],
      [pat |-> PatMixedSeps, keys |-> {"a", "1", " ", "-"}, len |-> MaxLen,
       spaces |-> MaxLen, pasted |-> {}],
      [pat |-> PatNestedLiteral, keys |-> {"1", "-", " ", "a"}, len |-> MaxLen,
       spaces |-> MaxLen, pasted |-> {}],
      [pat |-> PatLongAlt, keys |-> {"1", "2", "a", "-"}, len |-> MaxLen,
       spaces |-> 0, pasted |-> {}],
      [pat |-> PatAdvance, keys |-> {"1", "a", "-"}, len |-> MaxLen,
       spaces |-> 0, pasted |-> {}],
      [pat |-> PatSatisfied, keys |-> {"1", "2", "a", "-"}, len |-> MaxLen,
       spaces |-> 0, pasted |-> {}],
      [pat |-> PatQuantifier, keys |-> {"1", "a", "-", "+"}, len |-> MaxLen + 1,
       spaces |-> 0, pasted |-> {}],
      [pat |-> PatPlusSep, keys |-> {"a", "1", "-", " "}, len |-> MaxLen,
       spaces |-> MaxLen, pasted |-> {}],
      [pat |-> PatEmptySep, keys |-> {"1", "a", "-"}, len |-> MaxLen,
       spaces |-> 0, pasted |-> {}],
      [pat |-> PatTwoSeps, keys |-> {"1", "-", "a"}, len |-> MaxLen + 1,
       spaces |-> 0, pasted |-> {}],
      [pat |-> PatManualCount, keys |-> {"a", "1", " "}, len |-> MaxLen + 2,
       spaces |-> MaxLen, pasted |-> {}],
      [pat |-> PatGroupSkip, keys |-> {"a", "1"}, len |-> MaxLen + 1,
       spaces |-> 0, pasted |-> {}],
      [pat |-> PatSeparatorPrefix, keys |-> {"1", "-"}, len |-> MaxLen + 1,
       spaces |-> 0, pasted |-> {}],
      [pat |-> PatThreeTail, keys |-> {"1", "+", "-"}, len |-> MaxLen,
       spaces |-> 0, pasted |-> {}],
      [pat |-> PatTwoFours, keys |-> {"1", "-"}, len |-> MaxLen + 1,
       spaces |-> 0, pasted |-> {SeparatorEarly}],
      [pat |-> BadEmptyAlternative, keys |-> {}, len |-> 0, spaces |-> 0, pasted |-> {}],
      [pat |-> BadZeroQuantifier, keys |-> {}, len |-> 0, spaces |-> 0, pasted |-> {}],
      [pat |-> BadLeadingSeparator, keys |-> {}, len |-> 0, spaces |-> 0, pasted |-> {}],
      [pat |-> BadTrailingSeparator, keys |-> {}, len |-> 0, spaces |-> 0, pasted |-> {}],
      [pat |-> BadUnclosedGroup, keys |-> {}, len |-> 0, spaces |-> 0, pasted |-> {}],
      [pat |-> BadGroupQuantifier, keys |-> {}, len |-> 0, spaces |-> 0, pasted |-> {}],
      [pat |-> <<>>, keys |-> {}, len |-> 0, spaces |-> 0, pasted |-> {}] }

\* the catalogue entry of the pattern in use
Entry == CHOOSE e \in Catalogue : e.pat = pattern

\* number of white-space characters of s
CountSpaces(s) == Cardinality({k \in 1..Len(s) : IsSpace(s[k])})

(***************************************************************************)
(* The caller: Mask.create once, then format on successive raw values.     *)
(***************************************************************************)

NotCompiled == [ok |-> FALSE, error |-> "", fragments |-> <<>>, separators |-> <<>>]

\* no callee has returned to the frame on top
NoReturn == [returned |-> FALSE, result |-> Result(<<>>, 0, FALSE, 0)]

Init ==
    /\ build = "script.ts"
    /\ pattern = <<>>
    /\ parsed = NotCompiled
    /\ log = <<>>
    /\ input = <<>>
    /\ masked = <<>>
    /\ mode = "none"
    /\ outs = <<>>
    /\ outcome = "none"
    /\ pc = "idle"
    /\ stack = <<>>
    /\ ret = NoReturn

\* logError: the line written to console.error
logError(message) == [prefix |-> "[Mask] ", message |-> message]

\* the message of the first check of parseMask
EmptyPatternMessage == "Pattern must be a non-empty string"

\* whether the build sends message to logError before it throws: fail() of
\* script.ts always does; parseMask of part_000 throws its own error bare
LogsBeforeThrow(b, message) == b = "script.ts" \/ message # EmptyPatternMessage

\* what a compile with outcome p has sent to console.error when it ends
Diagnostics(b, p) ==
    IF p.ok \/ ~LogsBeforeThrow(b, p.error) THEN <<>> ELSE <<logError(p.error)>>

\* Mask.create(p): compile; fail() logs the message and throws MaskError
Create(p) ==
    /\ pc \in {"idle", "failed"}
    /\ pattern' = p
    /\ parsed' = parseMask(p)
    /\ log' = Diagnostics(build, parsed')
    /\ pc' = IF parsed'.ok THEN "ready" ELSE "failed"
    /\ input' = <<>>
    /\ masked' = <<>>
    /\ mode' = "none"
    /\ outs' = <<>>
    /\ outcome' = "none"
    /\ UNCHANGED <<build, stack, ret>>

\* what the caller observes of a formatValue call that produced r
Returns(r) ==
    /\ masked' = r.masked
    /\ mode' = r.mode
    /\ outs' = r.outs
    /\ outcome' = IF r.threw THEN "threw" ELSE "returned"

\* formatter.format(value): formatValue(parsed, value).masked
Format(value) ==
    /\ pc \in {"ready", "formatted"}
    /\ input' = value
    /\ Returns(formatValue(parsed, value))
    /\ parsed' = ParsedAfter(parsed, value)
    /\ pc' = "formatted"
    /\ UNCHANGED <<build, pattern, log, stack, ret>>

\* the user types one more key into the bound field, which is reformatted
Type ==
    \E c \in Entry.keys :
        /\ pc \in {"ready", "formatted"}
        /\ Len(ToInput(input)) < Entry.len
        /\ IsSpace(c) => CountSpaces(ToInput(input)) < Entry.spaces
        /\ Format(Append(ToInput(input), c))

\* a whole value is set at once: an example value, or null
Paste ==
    \E value \in Entry.pasted \cup {Null} :
        /\ pc \in {"ready", "formatted"}
        /\ Format(value)

Compile == \E e \in Catalogue : Create(e.pat)

Next == Compile \/ Type \/ Paste

Spec == Init /\ [][Next]_vars

(***************************************************************************)
(* One format call run step by step: every loop iteration, call and return *)
(* of formatValue, consumeNodes, consumeSymbol and consumeGroup is a step,  *)
(* and stack holds the activation records of the calls in progress.        *)
(***************************************************************************)

\* longest raw value of a call that is run step by step
ScanLen == 3

\* the callee returned r
Returned(r) == [returned |-> TRUE, result |-> r]

\* the activation record on top of the stack, and those below it
Top == stack[Len(stack)]

Callers == SubSeq(stack, 1, Len(stack) - 1)

\* formatValue: the fragment loop at index i (0-based) with its locals
FormatFrame(manual, parts, sepList, i, pos, fragmentsOut, broken) ==
    [fn |-> "formatValue", manual |-> manual, parts |-> parts, seps |-> sepList,
     i |-> i, pos |-> pos, fragmentsOut |-> fragmentsOut, broken |-> broken]

\* consumeNodes: the for loop at index i (1-based) with its locals
NodesFrame(nodes, inp, startPos, separators, tailNodes, i, out, pos, satisfied) ==
    [fn |-> "consumeNodes", nodes |-> nodes, inp |-> inp, startPos |-> startPos,
     seps |-> separators, tail |-> tailNodes, i |-> i, out |-> out, pos |-> pos,
     satisfied |-> satisfied]

\* consumeSymbol: the while loop in loop state (out, pos, count)
SymbolFrame(node, inp, startPos, separators, remainingNodes, out, pos, count) ==
    [fn |-> "consumeSymbol", node |-> node, inp |-> inp, startPos |-> startPos,
     seps |-> separators, tail |-> remainingNodes, out |-> out, pos |-> pos,
     count |-> count]

\* consumeGroup: the for loop at alternative a (1-based) with best
GroupFrame(node, inp, startPos, separators, tailNodes, a, best) ==
    [fn |-> "consumeGroup", node |-> node, inp |-> inp, startPos |-> startPos,
     seps |-> separators, tail |-> tailNodes, a |-> a, best |-> best]

\* the frame of consumeNode(node, ...): it dispatches on the node type
NodeFrame(node, inp, startPos, separators, remainingNodes) ==
    IF node.type = "symbol"
    THEN SymbolFrame(node, inp, startPos, separators, remainingNodes, <<>>, startPos, 0)
    ELSE GroupFrame(node, inp, startPos, separators, remainingNodes, 1,
                    InitialBest(startPos))

\* FragmentFrame with the cursor of contiguous mode back at 0 for every fragment
FragmentFrameFromStart(f) ==
    IF f.manual
    THEN NodesFrame(parsed.fragments[f.i + 1], ValuePart(f.parts, f.i).value, 0,
                    <<>>, <<>>, 1, <<>>, 0, TRUE)
    ELSE NodesFrame(parsed.fragments[f.i + 1], ToInput(input), 0, f.seps,
                    TailAt(parsed, f.i), 1, <<>>, 0, TRUE)

\* the frame of the consumeNodes call of formatValue for fragment i (0-based)
FragmentFrame(f) ==
    IF f.manual
    THEN NodesFrame(parsed.fragments[f.i + 1], ValuePart(f.parts, f.i).value, 0,
                    <<>>, <<>>, 1, <<>>, 0, TRUE)
    ELSE NodesFrame(parsed.fragments[f.i + 1], ToInput(input), f.pos, f.seps,
                    TailAt(parsed, f.i), 1, <<>>, f.pos, TRUE)

\* the raw values of at most ScanLen keys of a catalogue entry, and the
\* values pasted whole
ScanValues(e) == UNION { [1..n -> e.keys] : n \in 0..ScanLen } \cup e.pasted

\* the formatter of the pattern pat, compiled to p, has just been called on value
ScanStart(pat, value, p) ==
    /\ p.ok
    /\ build = "script.ts"
    /\ pattern = pat
    /\ parsed = p
    /\ log = <<>>
    /\ input = value
    /\ masked = <<>>
    /\ mode = "none"
    /\ outs = <<>>
    /\ outcome = "none"
    /\ pc = "scanning"
    /\ stack = <<FormatFrame(manualSpaceMask(p), SplitWords(ToInput(value), 1, <<>>),
                             SepList(p.separators), 0, 0, <<>>, FALSE)>>
    /\ ret = NoReturn

\* a formatter of a pattern that compiles has just been called on a raw value
ScanInit ==
    \E e \in Catalogue :
        \E value \in ScanValues(e) : ScanStart(e.pat, value, parseMask(e.pat))

\* the frame on top moves on to frame, with no call and no return
Continue(frame) ==
    /\ stack' = Append(Callers, frame)
    /\ ret' = NoReturn
    /\ UNCHANGED <<build, pattern, parsed, log, input, masked, mode, outs, outcome, pc>>

\* the frame on top calls the function of frame
Call(frame) ==
    /\ stack' = Append(stack, frame)
    /\ ret' = NoReturn
    /\ UNCHANGED <<build, pattern, parsed, log, input, masked, mode, outs, outcome, pc>>

\* the frame on top returns result to its caller
Return(result) ==
    /\ stack' = Callers
    /\ ret' = Returned(result)
    /\ UNCHANGED <<build, pattern, parsed, log, input, masked, mode, outs, outcome, pc>>

\* formatValue: the loop condition holds, consumeNodes is called on fragment i
FragmentCall ==
    /\ pc = "scanning" /\ Top.fn = "formatValue" /\ ~ret.returned
    /\ ~Top.broken /\ Top.i < Len(parsed.fragments)
    /\ Call(FragmentFrame(Top))

\* formatValue: the result of fragment i is pushed; break or i += 1
FragmentReturn ==
    /\ pc = "scanning" /\ Top.fn = "formatValue" /\ ret.returned
    /\ Continue(FormatFrame(Top.manual, Top.parts, Top.seps, Top.i + 1,
                            IF Top.manual THEN Top.pos ELSE ret.result.pos,
                            Append(Top.fragmentsOut, ret.result.out),
                            ~ret.result.satisfied))

\* formatValue: the loop is over; join and return to the caller of format
FormatReturn ==
    /\ pc = "scanning" /\ Top.fn = "formatValue" /\ ~ret.returned
    /\ Top.broken \/ Top.i >= Len(parsed.fragments)
    /\ Returns(IF Top.manual
               THEN ManualResult([outs |-> Top.fragmentsOut, threw |-> FALSE],
                                 ToInput(input) # <<>>
                                     /\ IsSpace(ToInput(input)[Len(ToInput(input))]))
               ELSE ContiguousResult([outs |-> Top.fragmentsOut, threw |-> FALSE],
                                     SeparatorsAfter(parsed.separators)))
    /\ pc' = "formatted"
    /\ stack' = <<>>
    /\ ret' = NoReturn
    /\ UNCHANGED <<build, pattern, parsed, log, input>>

\* consumeNodes: one iteration of the separator-skip loop
SkipSeparator ==
    /\ pc = "scanning" /\ Top.fn = "consumeNodes" /\ ~ret.returned
    /\ Top.satisfied /\ Top.i <= Len(Top.nodes)
    /\ separatorLengthAt(Top.inp, Top.pos, Top.seps) > 0
    /\ Continue([Top EXCEPT !.pos = @ + separatorLengthAt(Top.inp, Top.pos, Top.seps)])

\* consumeNodes: no separator ahead, consumeNode is called on node i
NodeCall ==
    /\ pc = "scanning" /\ Top.fn = "consumeNodes" /\ ~ret.returned
    /\ Top.satisfied /\ Top.i <= Len(Top.nodes)
    /\ separatorLengthAt(Top.inp, Top.pos, Top.seps) = 0
    /\ Call(NodeFrame(Top.nodes[Top.i], Top.inp, Top.pos, Top.seps,
                      Lookahead(Top.nodes, Top.i, Top.tail)))

\* consumeNodes: the result of node i is accumulated; break or i += 1
NodeReturn ==
    /\ pc = "scanning" /\ Top.fn = "consumeNodes" /\ ret.returned
    /\ Continue([Top EXCEPT !.out = @ \o ret.result.out,
                            !.pos = ret.result.pos,
                            !.satisfied = ret.result.satisfied,
                            !.i = @ + 1])

\* consumeNodes: the loop is over; return
NodesReturn ==
    /\ pc = "scanning" /\ Top.fn = "consumeNodes" /\ ~ret.returned
    /\ ~Top.satisfied \/ Top.i > Len(Top.nodes)
    /\ Return(Result(Top.out, Top.pos, Top.satisfied, Top.pos - Top.startPos))

\* the step of the while loop of consumeSymbol in the state of frame f
FrameStep(f) ==
    SymbolStep(f.node, f.inp, f.startPos, f.seps, f.tail, f.out, f.pos, f.count)

\* consumeSymbol: an iteration that stays in the loop
SymbolIterate ==
    /\ pc = "scanning" /\ Top.fn = "consumeSymbol"
    /\ ~FrameStep(Top).done
    /\ Continue([Top EXCEPT !.out = FrameStep(Top).out,
                            !.pos = FrameStep(Top).pos,
                            !.count = FrameStep(Top).count])

\* consumeSymbol: the loop is left (condition false, break or return inside)
SymbolReturn ==
    /\ pc = "scanning" /\ Top.fn = "consumeSymbol"
    /\ FrameStep(Top).done
    /\ Return(FrameStep(Top).result)

\* consumeGroup: consumeNodes is called on alternative a
AlternativeCall ==
    /\ pc = "scanning" /\ Top.fn = "consumeGroup" /\ ~ret.returned
    /\ Top.a <= Len(Top.node.alternatives)
    /\ Call(NodesFrame(Top.node.alternatives[Top.a], Top.inp, Top.startPos, Top.seps,
                       Top.tail, 1, <<>>, Top.startPos, TRUE))

\* consumeGroup: the result of alternative a is compared with best
AlternativeReturn ==
    /\ pc = "scanning" /\ Top.fn = "consumeGroup" /\ ret.returned
    /\ Continue([Top EXCEPT !.best = Pick(ret.result, @), !.a = @ + 1])

\* consumeGroup: every alternative was tried; return best
GroupReturn ==
    /\ pc = "scanning" /\ Top.fn = "consumeGroup" /\ ~ret.returned
    /\ Top.a > Len(Top.node.alternatives)
    /\ Return(Top.best)

ScanNext ==
    \/ FragmentCall \/ FragmentReturn \/ FormatReturn
    \/ SkipSeparator \/ NodeCall \/ NodeReturn \/ NodesReturn
    \/ SymbolIterate \/ SymbolReturn
    \/ AlternativeCall \/ AlternativeReturn \/ GroupReturn

\* the call runs to completion: nothing else runs while format is on the stack
ScanSpec == ScanInit /\ [][ScanNext]_vars /\ WF_vars(ScanNext)

(***************************************************************************)
(* Properties.                                                             *)
(***************************************************************************)

Min(a, b) == IF a < b THEN a ELSE b

\* the first n characters of s (all of s when it is shorter)
Take(s, n) == SubSeq(s, 1, Min(n, Len(s)))

\* the latest call was given a string (not null)
IsStringInput == input # Null

DigitsOnly(s) == \A k \in 1..Len(s) : s[k] \in DigitChars

EndsWithSpace(s) == s # <<>> /\ IsSpace(s[Len(s)])

\* s ends with one space that no other white space precedes
EndsWithOneSpace(s) ==
    /\ s # <<>>
    /\ s[Len(s)] = " "
    /\ (Len(s) >= 2 => ~IsSpace(s[Len(s) - 1]))

\* C1: with pattern 0{3}:-:0{2}, a raw value of decimal digits is formatted
\* as its digits 1-3, followed by "-" and digits 4-5 only when a 4th digit
\* exists; the digits after the 5th are dropped.
C1_DigitsExample ==
    (pc = "formatted" /\ pattern = PatDigits /\ IsStringInput /\ DigitsOnly(input)) =>
        masked = Take(input, 3) \o
                 (IF Len(input) >= 4 THEN <<"-">> \o SubSeq(input, 4, Min(5, Len(input)))
                  ELSE <<>>)

C1_Witness ==
    /\ pc = "formatted"
    /\ pattern = PatDigits
    /\ input = DigitsExample
    /\ masked = <<"1", "2", "3", "-", "4", "5">>

RECURSIVE SymbolsOf(_)
\* the symbol nodes of a node sequence, at every group nesting depth
SymbolsOf(nodes) ==
    UNION { IF nodes[k].type = "symbol" THEN {nodes[k]}
            ELSE UNION { SymbolsOf(nodes[k].alternatives[a]) :
                            a \in 1..Len(nodes[k].alternatives) } :
            k \in 1..Len(nodes) }

\* every separator of the compiled pattern is a single space
EverySeparatorIsOneSpace == \A k \in 1..Len(parsed.separators) : parsed.separators[k] = <<" ">>

\* some fragment contains a letter or literal symbol
SomeNonDigitSymbol ==
    \E f \in 1..Len(parsed.fragments) :
        \E sym \in SymbolsOf(parsed.fragments[f]) : sym.kind \in {"A", "literal"}

\* C2 as claimed: manual-space mode exactly when every separator is a single
\* space and some fragment contains a non-digit symbol, a pattern without
\* separators included.
C2_ModeAsClaimed ==
    pc = "formatted" =>
        /\ mode \in {"manual", "contiguous"}
        /\ mode = "manual" <=> (EverySeparatorIsOneSpace /\ SomeNonDigitSymbol)

\* C2 amended: manual-space mode exactly when the pattern has at least one
\* separator, every separator is a single space and some fragment contains a
\* non-digit symbol at any nesting depth; contiguous mode otherwise.
C2_ModeSelection ==
    pc = "formatted" =>
        /\ mode \in {"manual", "contiguous"}
        /\ mode = "manual" <=> /\ Len(parsed.separators) >= 1
                               /\ EverySeparatorIsOneSpace
                               /\ SomeNonDigitSymbol

C2_Witness ==
    /\ pc = "formatted"
    /\ pattern = PatNestedLiteral
    /\ mode = "manual"
    /\ input # <<>>

JohnSmithJoined == <<"J", "o", "h", "n", "S", "m", "i", "t", "h">>

\* C3 as claimed: with the two-space separator of A{+}:  :A{+},
\* format("John Smith") returns "John Smith".
C3_TwoSpacesAsClaimed ==
    (pc = "formatted" /\ pattern = PatNameTwoSpaces /\ input = JohnSmith) =>
        masked = JohnSmith

\* C3 amended: format("John Smith") returns "John Smith" with the pattern
\* A{+}: :A{+} whose separator is one space; with the two-space separator
\* the call runs in contiguous mode and returns "JohnSmith".
C3_NameExample ==
    (pc = "formatted" /\ input = JohnSmith) =>
        /\ pattern = PatNameOneSpace => (masked = JohnSmith /\ mode = "manual")
        /\ pattern = PatNameTwoSpaces => (masked = JohnSmithJoined /\ mode = "contiguous")

C3_Witness ==
    /\ pc = "formatted"
    /\ pattern = PatNameOneSpace
    /\ input = JohnSmith
    /\ masked = JohnSmith

\* C4 as claimed: in manual-space mode the output ends with exactly one
\* space whenever the raw value ends with white space, and has no trailing
\* white space otherwise.
C4_TrailingSpaceAsClaimed ==
    (pc = "formatted" /\ mode = "manual" /\ IsStringInput) =>
        IF EndsWithSpace(input) THEN EndsWithOneSpace(masked) ELSE ~EndsWithSpace(masked)

\* C4 amended: in manual-space mode the output has no trailing white space
\* when the raw value does not end with white space; when it does, the
\* output ends with exactly one space if at least two fragments were
\* processed and the last processed one produced no output, and has no
\* trailing white space otherwise (all fragments filled, or the first
\* fragment left unsatisfied).
C4_TrailingSpace ==
    (pc = "formatted" /\ mode = "manual" /\ IsStringInput) =>
        IF EndsWithSpace(input) /\ Len(outs) >= 2 /\ outs[Len(outs)] = <<>>
        THEN EndsWithOneSpace(masked)
        ELSE ~EndsWithSpace(masked)

C4_Witness ==
    /\ pc = "formatted"
    /\ mode = "manual"
    /\ pattern = PatNameOneSpace
    /\ input = <<"a", " ">>
    /\ masked = <<"a", " ">>

\* the digits of s, in order
DigitsOf(s) == SelectSeq(s, LAMBDA ch : ch \in DigitChars)

RECURSIVE GroupsOfFour(_)
\* digits in groups of four joined by "-"
GroupsOfFour(digits) ==
    IF Len(digits) <= 4 THEN digits
    ELSE SubSeq(digits, 1, 4) \o <<"-">> \o GroupsOfFour(SubSeq(digits, 5, Len(digits)))

\* C5: with the card pattern 0{4}:-:0{4}:-:0{4}:-:0{4}, a raw value of digits
\* and spaces is formatted as its first 16 digits in groups of four joined
\* by "-", whatever spaces it contains.
C5_CardExample ==
    (/\ pc = "formatted" /\ pattern = PatCard /\ IsStringInput
     /\ \A k \in 1..Len(input) : input[k] \in DigitChars \cup {" "}) =>
        masked = GroupsOfFour(Take(DigitsOf(input), 16))

C5_Witness ==
    /\ pc = "formatted"
    /\ pattern = PatCard
    /\ input = CardExample
    /\ masked = <<"4", "1", "1", "1", "-", "1", "1", "1", "1", "-",
                  "1", "1", "1", "1", "-", "1", "1", "1", "1">>

\* the characters a string of the model can hold
AllChars == DigitChars \cup LetterChars \cup SpaceChars \cup {"-", "+"}

\* C6: every format call on a compiled pattern returns a string; none raises.
C6_FormatNeverThrows ==
    pc = "formatted" =>
        /\ outcome = "returned"
        /\ \A k \in 1..Len(masked) : masked[k] \in AllChars

C6_Witness ==
    /\ pc = "formatted"
    /\ mode = "manual"
    /\ outcome = "returned"
    /\ input = <<" ", "1">>
    /\ masked = <<>>

(***************************************************************************)
(* The calls of consumeSymbol and consumeGroup that a format call on the   *)
(* current pattern and raw value can make.                                 *)
(***************************************************************************)

\* the consumeNodes calls of formatValue, one per fragment: in manual-space
\* mode on the fragment's word without separators or tail, in contiguous mode
\* on the whole input with sepList and the next fragment as tail
FragmentRuns ==
    { IF mode = "manual"
      THEN [nodes |-> parsed.fragments[f], tail |-> <<>>, seps |-> <<>>,
            inp |-> ValuePart(SplitWords(ToInput(input), 1, <<>>), f - 1).value]
      ELSE [nodes |-> parsed.fragments[f], tail |-> TailAt(parsed, f - 1),
            seps |-> SepList(parsed.separators), inp |-> ToInput(input)] :
      f \in 1..Len(parsed.fragments) }

RECURSIVE NodeCalls(_, _, _)
\* the nodes of the given type that consumeNodes(nodes, .., tail) hands to
\* consumeNode, at every nesting depth, each with its lookahead
NodeCalls(nodes, tail, type) ==
    UNION { (IF nodes[i].type = type
             THEN {[node |-> nodes[i], lookahead |-> Lookahead(nodes, i, tail)]}
             ELSE {})
            \cup
            (IF nodes[i].type = "group"
             THEN UNION { NodeCalls(nodes[i].alternatives[a],
                                    Lookahead(nodes, i, tail), type) :
                             a \in 1..Len(nodes[i].alternatives) }
             ELSE {}) :
            i \in 1..Len(nodes) }

\* a known separator starts at position p of inp
SeparatorStartsAt(inp, p, seps) ==
    \E k \in 1..Len(seps) : seps[k] # <<>> /\ StartsWith(inp, seps[k], p)

\* the order of C8: x beats y
Beats(x, y) ==
    \/ Len(x.raw) > Len(y.raw)
    \/ Len(x.raw) = Len(y.raw) /\ x.advanced < y.advanced
    \/ Len(x.raw) = Len(y.raw) /\ x.advanced = y.advanced /\ x.satisfied /\ ~y.satisfied

\* the results of the alternatives of a group call, each from the same start
AlternativeResults(call, run, startPos) ==
    { consumeNodes(call.node.alternatives[a], run.inp, startPos, run.seps, call.lookahead) :
        a \in 1..Len(call.node.alternatives) }

\* C8 as claimed: the result of group consumption is the result of one of
\* its alternatives, and no alternative's result beats it in the order
\* (longer raw, then smaller advance, then satisfied).
C8_GroupResultAsClaimed ==
    pc = "formatted" =>
        \A run \in FragmentRuns :
            \A call \in NodeCalls(run.nodes, run.tail, "group") :
                \A startPos \in 0..Len(run.inp) :
                    LET r == consumeGroup(call.node, run.inp, startPos, run.seps,
                                          call.lookahead)
                        alts == AlternativeResults(call, run, startPos)
                    IN  /\ r \in alts
                        /\ \A x \in alts : ~Beats(x, r)

\* C8 amended: the result of group consumption is beaten by no alternative's
\* result in the order (longer raw, then smaller advance, then satisfied);
\* it is the result of one of the alternatives, or, when no alternative
\* recognised a character, the empty unsatisfied result at the start
\* position that the selection starts from.
C8_GroupResult ==
    pc = "formatted" =>
        \A run \in FragmentRuns :
            \A call \in NodeCalls(run.nodes, run.tail, "group") :
                \A startPos \in 0..Len(run.inp) :
                    LET r == consumeGroup(call.node, run.inp, startPos, run.seps,
                                          call.lookahead)
                        alts == AlternativeResults(call, run, startPos)
                        empty == [out |-> <<>>, raw |-> <<>>, pos |-> startPos,
                                  satisfied |-> FALSE, advanced |-> 0]
                    IN  /\ \A x \in alts : ~Beats(x, r)
                        /\ \/ r \in alts
                           \/ r = empty /\ \A x \in alts : x.raw = <<>>

\* a longer unsatisfied alternative has beaten a shorter satisfied one
C8_Witness ==
    /\ pc = "formatted"
    /\ pattern = PatLongAlt
    /\ input = <<"1", "2">>
    /\ masked = <<"1", "2">>
    /\ \E run \in FragmentRuns :
           \E call \in NodeCalls(run.nodes, run.tail, "group") :
               /\ ~consumeGroup(call.node, run.inp, 0, run.seps, call.lookahead).satisfied
               /\ \E x \in AlternativeResults(call, run, 0) : x.satisfied /\ Len(x.raw) = 1

\* the positions of inp from startPos up to (not including) stop whose
\* character is of the class of the symbol
ClassPositions(node, inp, startPos, stop) ==
    {q \in startPos..(stop - 1) : matchesNode(node, inp[q + 1])}

\* the characters of inp at the positions from..(to - 1) that are in keep
RECURSIVE KeepAt(_, _, _, _)
KeepAt(inp, from, to, keep) ==
    IF from >= to THEN <<>>
    ELSE (IF from \in keep THEN <<inp[from + 1]>> ELSE <<>>) \o KeepAt(inp, from + 1, to, keep)

\* the first position at or after startPos where a known separator starts,
\* or the end of inp
FirstSeparator(inp, startPos, seps) ==
    CHOOSE p \in startPos..Len(inp) :
        /\ p = Len(inp) \/ SeparatorStartsAt(inp, p, seps)
        /\ \A q \in startPos..(p - 1) : ~SeparatorStartsAt(inp, q, seps)

\* where the run of a {+} symbol ends according to C9
PlusStop(call, inp, startPos, seps) ==
    LET stops(p) ==
            \/ p = Len(inp)
            \/ SeparatorStartsAt(inp, p, seps)
            \/ /\ ~matchesNode(call.node, inp[p + 1])
               /\ canStartWithChar(call.lookahead, inp[p + 1])
               /\ ClassPositions(call.node, inp, startPos, p) # {}
    IN  CHOOSE p \in startPos..Len(inp) :
            stops(p) /\ \A q \in startPos..(p - 1) : ~stops(q)

\* C9: a symbol with {n} emits exactly the first n characters of its class
\* and is satisfied whenever n of them occur before the first position where
\* a known separator starts, and never emits more than n; a symbol with {+}
\* emits every character of its class up to the first position where a known
\* separator starts, or where a non-matching character can start the
\* lookahead once a character was emitted, or the end of input.
C9_QuantifierBoundary ==
    pc = "formatted" =>
        \A run \in FragmentRuns :
            \A call \in NodeCalls(run.nodes, run.tail, "symbol") :
                \A startPos \in 0..Len(run.inp) :
                    LET r == consumeSymbol(call.node, run.inp, startPos, run.seps,
                                           call.lookahead)
                        n == call.node.max
                        before == ClassPositions(call.node, run.inp, startPos,
                                      FirstSeparator(run.inp, startPos, run.seps))
                        stop == PlusStop(call, run.inp, startPos, run.seps)
                    IN  IF n = Infinity
                        THEN r.out = KeepAt(run.inp, startPos, stop,
                                        ClassPositions(call.node, run.inp, startPos, stop))
                        ELSE /\ Len(r.out) <= n
                             /\ Cardinality(before) >= n =>
                                    /\ r.satisfied
                                    /\ \E firstN \in SUBSET before :
                                           /\ Cardinality(firstN) = n
                                           /\ \A q \in firstN : \A q2 \in before \ firstN : q < q2
                                           /\ r.out = KeepAt(run.inp, startPos, Len(run.inp), firstN)

\* 0{2} took exactly two digits, A{+} skipped a stray digit and stopped at
\* the "-" that starts the following literal
C9_Witness ==
    /\ pc = "formatted"
    /\ pattern = PatQuantifier
    /\ input = <<"1", "1", "1", "a", "-">>
    /\ masked = <<"1", "1", "a", "-">>

RECURSIVE ExactEnds(_, _, _)
\* the positions where inp can be left after its characters from pos on have
\* matched nodes exactly: each symbol min characters of its class, each group
\* one of its alternatives, nothing in between
ExactEnds(nodes, inp, pos) ==
    IF nodes = <<>> THEN {pos}
    ELSE LET first == nodes[1]
             after ==
                 IF first.type = "symbol"
                 THEN IF /\ pos + first.min <= Len(inp)
                         /\ \A k \in 1..first.min : matchesNode(first, inp[pos + k])
                      THEN {pos + first.min} ELSE {}
                 ELSE UNION { ExactEnds(first.alternatives[a], inp, pos) :
                                 a \in 1..Len(first.alternatives) }
         IN  UNION { ExactEnds(Tail(nodes), inp, p) : p \in after }

\* x matches the compiled pattern exactly at its minimum requirements: the
\* fragments one after the other, no stray character, no separator text
IsExactValue(p, x) ==
    /\ Len(x) \in ExactEnds(Concat(p.fragments), x, 0)
    /\ \A q \in 0..Len(x) : ~SeparatorStartsAt(x, q, p.separators)

RECURSIVE RemoveAll(_, _, _)
\* s.split(sep).join(''), scanning from 0-based position q: every occurrence
\* of sep removed, leftmost first
RemoveAll(s, sep, q) ==
    IF q >= Len(s) THEN <<>>
    ELSE IF StartsWith(s, sep, q) THEN RemoveAll(s, sep, q + Len(sep))
    ELSE <<s[q + 1]>> \o RemoveAll(s, sep, q + 1)

RECURSIVE StripSeparators(_, _)
\* s with the occurrences of every separator of seps removed, in the order of seps
StripSeparators(s, seps) ==
    IF seps = <<>> THEN s
    ELSE StripSeparators(RemoveAll(s, Head(seps), 0), Tail(seps))

\* C10: round trip: when the raw value x matches the pattern exactly at its
\* minimum requirements (no stray character, no separator text) and
\* m = format(x), formatting m with every separator occurrence stripped
\* (longest separator first) returns m again.
C10_RoundTrip ==
    (pc = "formatted" /\ IsStringInput /\ IsExactValue(parsed, input)) =>
        formatValue(parsed, StripSeparators(masked, SepList(parsed.separators))).masked
            = masked

(***************************************************************************)
(* Termination of a format call (specification ScanSpec).                  *)
(***************************************************************************)

RECURSIVE SizeOf(_)
RECURSIVE SizeOfAlternatives(_)
\* the number of nodes of a node sequence, nested alternatives included
SizeOf(nodes) ==
    IF nodes = <<>> THEN 0
    ELSE (IF Head(nodes).type = "group"
          THEN 1 + SizeOfAlternatives(Head(nodes).alternatives)
          ELSE 1)
         + SizeOf(Tail(nodes))

SizeOfAlternatives(alternatives) ==
    IF alternatives = <<>> THEN 0
    ELSE SizeOf(Head(alternatives)) + SizeOfAlternatives(Tail(alternatives))

\* the size of the part of the AST that a frame works on
FrameSize(f) ==
    IF f.fn = "formatValue" THEN SizeOf(Concat(parsed.fragments))
    ELSE IF f.fn = "consumeNodes" THEN SizeOf(f.nodes)
    ELSE SizeOf(<<f.node>>)

\* every frame works on a part of the AST of its caller: a fragment of the
\* pattern, the current node of the sequence, or an alternative of the
\* group, which is strictly smaller than the group
StackDescends ==
    \A k \in 1..(Len(stack) - 1) :
        LET caller == stack[k]
            callee == stack[k + 1]
        IN  /\ FrameSize(callee) <= FrameSize(caller)
            /\ caller.fn = "formatValue" =>
                   /\ callee.fn = "consumeNodes"
                   /\ callee.nodes = parsed.fragments[caller.i + 1]
            /\ caller.fn = "consumeNodes" =>
                   /\ callee.fn \in {"consumeSymbol", "consumeGroup"}
                   /\ callee.node = caller.nodes[caller.i]
            /\ caller.fn = "consumeGroup" =>
                   /\ callee.fn = "consumeNodes"
                   /\ \E a \in 1..Len(caller.node.alternatives) :
                          callee.nodes = caller.node.alternatives[a]
                   /\ FrameSize(callee) < FrameSize(caller)
            /\ caller.fn # "consumeSymbol"

\* a step that stays in the while loop of consumeSymbol moves the cursor on
SymbolLoopAdvances ==
    (stack # <<>> /\ Top.fn = "consumeSymbol" /\ Len(stack') = Len(stack)) =>
        stack'[Len(stack')].pos > Top.pos

\* a step that stays in the separator-skip loop of consumeNodes moves the
\* cursor on by the length of a separator
SkipLoopAdvances ==
    (stack # <<>> /\ Top.fn = "consumeNodes" /\ ~ret.returned
     /\ Len(stack') = Len(stack)) =>
        /\ stack'[Len(stack')].i = Top.i
        /\ stack'[Len(stack')].pos > Top.pos
        /\ \E k \in 1..Len(Top.seps) :
               stack'[Len(stack')].pos = Top.pos + Len(Top.seps[k])

\* the step-by-step run returns what formatValue returns
ScanAgrees ==
    pc = "formatted" =>
        /\ stack = <<>>
        /\ outcome = "returned"
        /\ masked = formatValue(parsed, input).masked
        /\ outs = formatValue(parsed, input).outs

\* C7: for every compiled pattern and raw string, a format call terminates
\* (with the value of formatValue): every iteration that stays in the
\* symbol scan loop advances the cursor, every iteration of the
\* separator-skip loop advances it by the positive length of a separator,
\* and every call works on a part of its caller's AST, an alternative being
\* strictly smaller than its group.
C7_Terminates ==
    /\ [][SymbolLoopAdvances /\ SkipLoopAdvances]_vars
    /\ [](StackDescends /\ ScanAgrees)
    /\ <>(pc = "formatted")

\* a call that skipped a leading separator, tried both alternatives of a
\* group and skipped a stray character in the symbol loop has returned
C7_Witness ==
    /\ pc = "formatted"
    /\ stack = <<>>
    /\ pattern = PatSatisfied
    /\ input = <<"-", "a", "1">>
    /\ masked = <<"1">>

(***************************************************************************)
(* Purity of format, and the compiler.                                     *)
(***************************************************************************)

\* C11: the string a format call returns depends only on the pattern string
\* and the raw value: after any sequence of earlier calls the formatter still
\* holds the AST a fresh compile of its pattern gives (fragments, separators
\* and their order), and its latest result is the one a fresh formatter of
\* the same pattern returns for the same raw value.
C11_FormatIsPure ==
    /\ pc \in {"ready", "formatted"} => parsed = parseMask(pattern)
    /\ pc = "formatted" =>
           /\ outcome = "returned"
           /\ masked = formatValue(parseMask(pattern), input).masked

\* the third call on a formatter whose separators are not in sorted order:
\* "-" comes before "--" in the pattern, sepList tries "--" first
C11_Witness ==
    /\ pc = "formatted"
    /\ pattern = PatTwoSeps
    /\ parsed.separators = <<<<"-">>, <<"-", "-">>>>
    /\ SepList(parsed.separators) = <<<<"-", "-">>, <<"-">>>>
    /\ input = <<"1", "1", "1">>
    /\ masked = <<"1", "-", "1", "-", "-", "1">>

(***************************************************************************)
(* One Mask.create call run step by step on every pattern of a bounded     *)
(* space: the compile either returns the AST, or sends its diagnostic to   *)
(* logError and then throws MaskError.                                     *)
(***************************************************************************)

\* most tokens of a pattern made of groups
MaxGroupTokens == 6

\* most characters of a pattern made of symbols and quantifiers
MaxQuantifierChars == 5

\* most tokens of a pattern made of fragments and separators
MaxSeparatorTokens == 5

RECURSIVE Words(_, _)
\* the concatenations of at most n of the tokens
Words(tokens, n) ==
    IF n = 0 THEN {<<>>}
    ELSE LET shorter == Words(tokens, n - 1) IN
         shorter \cup { w \o t : w \in shorter, t \in tokens }

GroupTokens == { <<"[", "[">>, <<"]", "]">>, <<"|">>, <<"A">> }

QuantifierTokens == { <<"A">>, <<"{">>, <<"}">>, <<"+">>, <<"0">>, <<"2">> }

SeparatorTokens == { <<":">>, <<":", "-", ":">>, <<"0">>, <<"[", "[">>, <<"]", "]">>,
                     <<"|">> }

\* most tokens of the text between the two colons of a separator
MaxSeparatorText == 2

SeparatorTextTokens == { <<"[", "[">>, <<"]", "]">>, <<"{">>, <<"}">>, <<"|">>, <<"-">>,
                         <<"A">>, <<" ">> }

GroupWords == Words(GroupTokens, MaxGroupTokens)

QuantifierWords == Words(QuantifierTokens, MaxQuantifierChars)

\* a symbol with its quantifier as the only alternative of a group
QuantifierInGroup ==
    { <<"[", "[">> \o w \o <<"]", "]">> : w \in Words(QuantifierTokens, MaxQuantifierChars - 1) }

SeparatorWords == Words(SeparatorTokens, MaxSeparatorTokens)

\* two fragments around one separator of any text without a colon
SeparatorTexts ==
    { <<"0", ":">> \o w \o <<":", "A">> : w \in Words(SeparatorTextTokens, MaxSeparatorText) }

BadQuantifierThenGroup == <<"A", "{", "0", "}", "[", "[", "A", "|", "]", "]">>

BadGroupThenColon == <<"[", "[", "A", "|", "]", "]", ":">>

BadNestedEmptyAlternative ==
    <<"[", "[", "A", "|", "[", "[", "A", "|", "]", "]", "]", "]">>

BadSingleBrackets == { <<"[">>, <<"]">>, <<"A", "[", "A">>, <<"[", "[", "A", "]">>,
                       <<"[", "[", "[", "|", "]", "]">> }

\* the patterns given to Mask.create
PatternSpace ==
    GroupWords \cup QuantifierWords \cup QuantifierInGroup \cup SeparatorWords
        \cup SeparatorTexts
        \cup { e.pat : e \in Catalogue } \cup BadSingleBrackets
        \cup { Null, BadQuantifierThenGroup, BadGroupThenColon, BadNestedEmptyAlternative }

\* the builds of the library in the repository
Builds == { "script.ts", "part_000" }

\* Mask.create has just been called on a pattern
CompileInit ==
    /\ build \in Builds
    /\ pattern \in PatternSpace
    /\ parsed = NotCompiled
    /\ log = <<>>
    /\ input = <<>>
    /\ masked = <<>>
    /\ mode = "none"
    /\ outs = <<>>
    /\ outcome = "none"
    /\ pc = "compiling"
    /\ stack = <<>>
    /\ ret = NoReturn

\* a step of the compile changes only what the caller and the console see
CompileStep(next, p, diagnostics) ==
    /\ pc' = next
    /\ parsed' = p
    /\ log' = diagnostics
    /\ UNCHANGED <<build, pattern, input, masked, mode, outs, outcome, stack, ret>>

\* parseMask runs up to its return statement or up to the place that fails
ParseMask ==
    /\ pc = "compiling"
    /\ CompileStep("parsed", parseMask(pattern), log)

\* parseMask returns the AST and create returns the formatter
CompileReturn ==
    /\ pc = "parsed"
    /\ parsed.ok
    /\ CompileStep("ready", parsed, log)

\* logError(message): the diagnostic of the failure goes to console.error
LogDiagnostic ==
    /\ pc = "parsed"
    /\ ~parsed.ok
    /\ LogsBeforeThrow(build, parsed.error)
    /\ CompileStep("throwing", parsed, Append(log, logError(parsed.error)))

\* throw new MaskError(message), once the message has been logged
ThrowLogged ==
    /\ pc = "throwing"
    /\ CompileStep("failed", parsed, log)

\* throw new MaskError(message) with no call of logError before it
ThrowBare ==
    /\ pc = "parsed"
    /\ ~parsed.ok
    /\ ~LogsBeforeThrow(build, parsed.error)
    /\ CompileStep("failed", parsed, log)

CompileNext == ParseMask \/ CompileReturn \/ LogDiagnostic \/ ThrowLogged \/ ThrowBare

CompileSpec == CompileInit /\ [][CompileNext]_vars /\ WF_vars(CompileNext)

(***************************************************************************)
(* Properties of the compiler.                                             *)
(***************************************************************************)

\* the compile of pattern has ended: parsed holds the AST or the error
Compiled == pc \in {"ready", "failed"}

RECURSIVE EmptyAlternativeFrom(_, _, _, _)
\* reading pat from index i at nesting depth depth, last being the token just
\* read: some group has an empty alternative, that is a "|" directly after
\* "[[" or after another "|", or a "]]" directly after "|" or after "[["
\* (the text between the two colons of a separator is no part of a group)
EmptyAlternativeFrom(pat, i, depth, last) ==
    LET ch == CharAt(pat, i)
        next == CharAt(pat, i + 1)
        end == IndexOf(pat, ":", i + 1)
    IN  IF i >= Len(pat) THEN FALSE
        ELSE IF ch = "[" /\ next = "[" THEN EmptyAlternativeFrom(pat, i + 2, depth + 1, "open")
        ELSE IF ch = "]" /\ next = "]"
        THEN \/ depth > 0 /\ last \in {"open", "bar"}
             \/ EmptyAlternativeFrom(pat, i + 2, IF depth > 0 THEN depth - 1 ELSE 0, "other")
        ELSE IF ch = "|"
        THEN \/ depth > 0 /\ last \in {"open", "bar"}
             \/ EmptyAlternativeFrom(pat, i + 1, depth, "bar")
        ELSE IF ch = ":" /\ depth = 0
        THEN end # -1 /\ EmptyAlternativeFrom(pat, end + 1, depth, "other")
        ELSE EmptyAlternativeFrom(pat, i + 1, depth, "other")

\* some group of the pattern, at any nesting depth, has an empty alternative
HasEmptyAlternative(pat) == pat # Null /\ EmptyAlternativeFrom(pat, 0, 0, "other")

RECURSIVE GroupsMatchedFrom(_, _, _)
\* from index i at nesting depth depth, every "[[" of pat has its "]]" and
\* every "]]" its "[[" (outside the text of separators)
GroupsMatchedFrom(pat, i, depth) ==
    LET ch == CharAt(pat, i)
        next == CharAt(pat, i + 1)
        end == IndexOf(pat, ":", i + 1)
    IN  IF i >= Len(pat) THEN depth = 0
        ELSE IF ch = "[" /\ next = "[" THEN GroupsMatchedFrom(pat, i + 2, depth + 1)
        ELSE IF ch = "]" /\ next = "]"
        THEN depth > 0 /\ GroupsMatchedFrom(pat, i + 2, depth - 1)
        ELSE IF ch = ":" /\ depth = 0
        THEN end # -1 /\ GroupsMatchedFrom(pat, end + 1, depth)
        ELSE GroupsMatchedFrom(pat, i + 1, depth)

\* every group of the pattern is closed
GroupsMatched(pat) == pat # Null /\ GroupsMatchedFrom(pat, 0, 0)

RECURSIVE WellNestedFrom(_, _, _)
\* from index i at nesting depth depth, pat is made of the symbols A and 0 and
\* of matched "[[" and "]]", with "|" inside groups only
WellNestedFrom(pat, i, depth) ==
    LET ch == CharAt(pat, i)
        next == CharAt(pat, i + 1)
    IN  IF i >= Len(pat) THEN depth = 0
        ELSE IF ch = "[" /\ next = "[" THEN WellNestedFrom(pat, i + 2, depth + 1)
        ELSE IF ch = "]" /\ next = "]" THEN depth > 0 /\ WellNestedFrom(pat, i + 2, depth - 1)
        ELSE IF ch = "|" THEN depth > 0 /\ WellNestedFrom(pat, i + 1, depth)
        ELSE ch \in {"A", "0"} /\ WellNestedFrom(pat, i + 1, depth)

\* a pattern whose only possible defect is an empty alternative
WellNested(pat) == pat # Null /\ WellNestedFrom(pat, 0, 0)

RECURSIVE GroupsAreFilled(_)
\* every group among the nodes, at any depth, has at least one alternative
\* and every alternative has at least one node
GroupsAreFilled(nodes) ==
    \A k \in 1..Len(nodes) :
        nodes[k].type = "group" =>
            /\ Len(nodes[k].alternatives) >= 1
            /\ \A a \in 1..Len(nodes[k].alternatives) :
                   /\ Len(nodes[k].alternatives[a]) >= 1
                   /\ GroupsAreFilled(nodes[k].alternatives[a])

EmptyAlternativeMessage == "Empty alternative in group"

\* C12 as stated: every pattern in which some group has an empty
\* alternative fails to compile with the error "Empty alternative in group"
\* (read narrowly: patterns whose groups are all closed).
C12_AlwaysThatError ==
    (Compiled /\ HasEmptyAlternative(pattern) /\ GroupsMatched(pattern)) =>
        /\ ~parsed.ok
        /\ parsed.error = EmptyAlternativeMessage

\* C12: every pattern in which some group, at any nesting depth, has an
\* empty alternative fails to compile; the error is "Empty alternative in
\* group" when the pattern has no other defect (symbols A and 0 and matched
\* groups only), as for [[A|]]; and in every returned AST each group has at
\* least one alternative and each alternative at least one node.
C12_EmptyAlternative ==
    Compiled =>
        /\ HasEmptyAlternative(pattern) => ~parsed.ok
        /\ (HasEmptyAlternative(pattern) /\ WellNested(pattern)) =>
               parsed.error = EmptyAlternativeMessage
        /\ pattern = BadEmptyAlternative => parsed.error = EmptyAlternativeMessage
        /\ parsed.ok =>
               \A f \in 1..Len(parsed.fragments) : GroupsAreFilled(parsed.fragments[f])

\* the compile of a group nested in a group, whose second alternative is
\* empty, has thrown
C12_Witness ==
    /\ pc = "failed"
    /\ pattern = BadNestedEmptyAlternative
    /\ HasEmptyAlternative(pattern) /\ WellNested(pattern)
    /\ parsed.error = EmptyAlternativeMessage

RECURSIVE Power10(_)
Power10(n) == IF n = 0 THEN 1 ELSE 10 * Power10(n - 1)

RECURSIVE DecimalValue(_)
\* the integer written in base 10 by the digits of body
DecimalValue(body) ==
    IF body = <<>> THEN 0
    ELSE DigitValue(Head(body)) * Power10(Len(body) - 1) + DecimalValue(Tail(body))

\* body writes an integer n >= 1 in base 10 without a leading zero
IsCount(body) ==
    /\ body # <<>>
    /\ \A k \in 1..Len(body) : body[k] \in DigitChars
    /\ body[1] # "0"

\* the characters that cannot be a symbol
ReservedChars == {":", "{", "}", "|", "[", "]"}

\* the class of the symbol written ch
KindOf(ch) == IF ch \in {"A", "0"} THEN ch ELSE "literal"

RECURSIVE SymbolNodes(_)
\* the symbol nodes among the nodes, at any depth
SymbolNodes(nodes) ==
    UNION { IF nodes[k].type = "symbol" THEN {nodes[k]}
            ELSE UNION { SymbolNodes(nodes[k].alternatives[a]) :
                             a \in 1..Len(nodes[k].alternatives) } :
            k \in 1..Len(nodes) }

\* the symbol nodes of the AST p
SymbolsOfMask(p) == UNION { SymbolNodes(p.fragments[f]) : f \in 1..Len(p.fragments) }

\* the pattern is one symbol followed by some text, alone or as the only
\* alternative of a group
IsSymbolThenText(pat, grouped) ==
    /\ pat # Null
    /\ IF grouped
       THEN /\ Len(pat) >= 5
            /\ SubSeq(pat, 1, 2) = <<"[", "[">>
            /\ SubSeq(pat, Len(pat) - 1, Len(pat)) = <<"]", "]">>
            /\ pat[3] \notin ReservedChars
       ELSE /\ Len(pat) >= 1
            /\ pat[1] \notin ReservedChars

\* that symbol and the text after it
SymbolOf(pat, grouped) == pat[IF grouped THEN 3 ELSE 1]

SuffixOf(pat, grouped) ==
    IF grouped THEN SubSeq(pat, 4, Len(pat) - 2) ELSE SubSeq(pat, 2, Len(pat))

\* text is {body} with no "}" in body
IsQuantifier(text) ==
    /\ Len(text) >= 2
    /\ text[1] = "{"
    /\ text[Len(text)] = "}"
    /\ \A k \in 1..(Len(text) - 1) : text[k] # "}"

\* text is { followed by text without "}"
IsOpenQuantifier(text) ==
    /\ Len(text) >= 1
    /\ text[1] = "{"
    /\ \A k \in 1..Len(text) : text[k] # "}"

\* the only symbol node of an AST made of that one symbol
OnlySymbol(p, grouped) ==
    IF grouped THEN p.fragments[1][1].alternatives[1][1] ELSE p.fragments[1][1]

\* the AST p is the one symbol of kind kind, with the counts min and max
IsOneSymbol(p, grouped, kind, min, max) ==
    /\ p.ok
    /\ Len(p.fragments) = 1 /\ Len(p.fragments[1]) = 1 /\ p.separators = <<>>
    /\ grouped => /\ p.fragments[1][1].type = "group"
                  /\ Len(p.fragments[1][1].alternatives) = 1
                  /\ Len(p.fragments[1][1].alternatives[1]) = 1
    /\ OnlySymbol(p, grouped).type = "symbol"
    /\ OnlySymbol(p, grouped).kind = kind
    /\ OnlySymbol(p, grouped).min = min
    /\ OnlySymbol(p, grouped).max = max

\* the errors of a quantifier whose text between the braces is body
QuantifierErrors(body) ==
    {"Unclosed quantifier", "Empty quantifier \"{}\" is invalid",
     "Invalid quantifier \"" \o TextOf(body) \o "\""}

\* what C13 says of the one symbol ch with the suffix {body}, compiled to p
BodyAsSpecified(ch, body, p, grouped) ==
    IF body = <<"+">> THEN IsOneSymbol(p, grouped, KindOf(ch), 1, Infinity)
    ELSE IF IsCount(body)
    THEN IsOneSymbol(p, grouped, KindOf(ch), DecimalValue(body), DecimalValue(body))
    ELSE ~p.ok /\ p.error \in QuantifierErrors(body)

\* what C13 says of the one symbol ch followed by suffix, compiled to p
SuffixAsSpecified(ch, suffix, p, grouped) ==
    /\ suffix = <<>> => IsOneSymbol(p, grouped, KindOf(ch), 1, 1)
    /\ IsQuantifier(suffix) =>
           BodyAsSpecified(ch, SubSeq(suffix, 2, Len(suffix) - 1), p, grouped)
    /\ (IsOpenQuantifier(suffix) /\ ~grouped) =>
           ~p.ok /\ p.error = "Unclosed quantifier"

\* what C13 says of a pattern made of one symbol and a suffix
QuantifierAsSpecified(pat, p, grouped) ==
    IsSymbolThenText(pat, grouped) =>
        SuffixAsSpecified(SymbolOf(pat, grouped), SuffixOf(pat, grouped), p, grouped)

\* C13: a suffix {+} gives min 1 and no upper bound; a suffix {n}, n >= 1
\* in base 10 without leading zero, gives min = max = n; every other body
\* (empty, 0, leading zero, non-numeric) and a missing "}" make the compile
\* fail; no suffix gives min = max = 1; so 1 <= min <= max for every symbol
\* node of a returned AST, and A{0} is rejected as an invalid quantifier.
C13_Quantifiers ==
    Compiled =>
        /\ QuantifierAsSpecified(pattern, parsed, FALSE)
        /\ QuantifierAsSpecified(pattern, parsed, TRUE)
        /\ parsed.ok =>
               \A node \in SymbolsOfMask(parsed) :
                   /\ 1 <= node.min
                   /\ node.max = Infinity \/ node.min <= node.max
        /\ pattern = BadZeroQuantifier =>
               ~parsed.ok /\ parsed.error = "Invalid quantifier \"0\""

\* the pattern 0{20} has compiled to one digit symbol with min = max = 20
C13_Witness ==
    /\ pc = "ready"
    /\ pattern = <<"0", "{", "2", "0", "}">>
    /\ IsSymbolThenText(pattern, FALSE)
    /\ IsQuantifier(SuffixOf(pattern, FALSE))
    /\ IsOneSymbol(parsed, FALSE, "0", 20, 20)

RECURSIVE EmptyFragmentFrom(_, _, _, _)
\* reading pat from index i at nesting depth depth, size characters into the
\* current fragment: a separator (two colons outside any group and the text
\* between them) comes with no text before it, or the pattern ends with no
\* text after the last separator
EmptyFragmentFrom(pat, i, depth, size) ==
    LET ch == CharAt(pat, i)
        next == CharAt(pat, i + 1)
        end == IndexOf(pat, ":", i + 1)
    IN  IF i >= Len(pat) THEN size = 0
        ELSE IF ch = "[" /\ next = "[" THEN EmptyFragmentFrom(pat, i + 2, depth + 1, size + 2)
        ELSE IF ch = "]" /\ next = "]"
        THEN EmptyFragmentFrom(pat, i + 2, IF depth > 0 THEN depth - 1 ELSE 0, size + 2)
        ELSE IF ch = ":" /\ depth = 0
        THEN end # -1 /\ (size = 0 \/ EmptyFragmentFrom(pat, end + 1, depth, 0))
        ELSE EmptyFragmentFrom(pat, i + 1, depth, size + 1)

\* the pattern has an empty fragment: a separator at its very start, two
\* separators with nothing between them, or a separator at its very end
HasEmptyFragment(pat) == pat # Null /\ pat # <<>> /\ EmptyFragmentFrom(pat, 0, 0, 0)

\* C14: the compile fails for every pattern with an empty fragment (a
\* separator at the very start, two separators with nothing between them, a
\* separator at the very end), so every fragment of a returned AST is a
\* non-empty sequence of nodes.
C14_EmptyFragment ==
    Compiled =>
        /\ HasEmptyFragment(pattern) => ~parsed.ok
        /\ parsed.ok =>
               /\ Len(parsed.fragments) >= 1
               /\ \A f \in 1..Len(parsed.fragments) : Len(parsed.fragments[f]) >= 1

\* the compile of a pattern with two separators and nothing between them
\* has thrown
C14_Witness ==
    /\ pc = "failed"
    /\ pattern = <<"0", ":", "-", ":", ":", "-", ":", "0">>
    /\ HasEmptyFragment(pattern)
    /\ parsed.error = "Empty fragment before separator"

\* the indices (1-based) of the colons of pat
Colons(pat) == { k \in 1..Len(pat) : pat[k] = ":" }

\* the index of the n-th colon of pat
ColonAt(pat, n) ==
    CHOOSE k \in Colons(pat) : Cardinality({ j \in Colons(pat) : j < k }) = n - 1

\* the text between the colons of the i-th pair of colons of pat
TextOfPair(pat, i) == SubSeq(pat, ColonAt(pat, 2 * i - 1) + 1, ColonAt(pat, 2 * i) - 1)

\* the text between the two colons of a pattern of SeparatorTexts
TextOfOnlyPair(pat) == SubSeq(pat, 3, Len(pat) - 2)

\* C15: for every accepted pattern separators.length = fragments.length - 1
\* and separators[i] is the text between the i-th pair of top-level colons,
\* in pattern order; a separator may be any text without a colon, the empty
\* text and texts with "[[", "]]", "{", "}" or "|" included.
C15_Separators ==
    Compiled =>
        /\ parsed.ok =>
               /\ Len(parsed.separators) = Len(parsed.fragments) - 1
               /\ Cardinality(Colons(pattern)) = 2 * Len(parsed.separators)
               /\ \A i \in 1..Len(parsed.separators) :
                      parsed.separators[i] = TextOfPair(pattern, i)
        /\ pattern \in SeparatorTexts =>
               /\ parsed.ok
               /\ parsed.separators = <<TextOfOnlyPair(pattern)>>

\* the pattern 0:[[|:A has compiled: its separator is the text [[|
C15_Witness ==
    /\ pc = "ready"
    /\ pattern = <<"0", ":", "[", "[", "|", ":", "A">>
    /\ parsed.separators = <<<<"[", "[", "|">>>>
    /\ Len(parsed.fragments) = 2

\* C16: on every failing compile, whatever its cause, exactly one diagnostic
\* is sent to the logging sink, and it is sent before the MaskError is
\* raised: the error is never raised without its diagnostic already logged,
\* and a compile that succeeds logs nothing.
C16_DiagnosticBeforeError ==
    /\ pc \in {"throwing", "failed"} => log = <<logError(parsed.error)>>
    /\ pc \in {"compiling", "parsed", "ready"} => log = <<>>

(***************************************************************************)
(* Properties of the symbol loop and of the separators of the engine.      *)
(***************************************************************************)

\* the character ch is in the class of the symbol node
InClass(node, ch) ==
    CASE node.kind = "0" -> ch \in DigitChars
      [] node.kind = "A" -> ch \in LetterChars
      [] OTHER -> ch = node.value

RECURSIVE FirstSymbols(_)
\* the symbols a sequence of nodes can begin with: its first node, or the
\* symbols the alternatives of its leading group can begin with
FirstSymbols(nodes) ==
    IF nodes = <<>> THEN {}
    ELSE IF nodes[1].type = "symbol" THEN {nodes[1]}
    ELSE UNION { FirstSymbols(nodes[1].alternatives[a]) :
                     a \in 1..Len(nodes[1].alternatives) }

\* the frame on top is the while loop of consumeSymbol with the loop
\* condition true: a character at the cursor, fewer than max consumed
InSymbolLoop ==
    /\ pc = "scanning" /\ stack # <<>>
    /\ Top.fn = "consumeSymbol"
    /\ Top.pos < Len(Top.inp)
    /\ BelowMax(Top.count, Top.node.max)

\* the character at the cursor of the frame on top
CursorChar == Top.inp[Top.pos + 1]

\* the step returns from the frame on top to its caller
StepReturns == Len(stack') = Len(stack) - 1 /\ ret'.returned

\* the step stays in the frame on top
StepStays == Len(stack') = Len(stack) /\ stack'[Len(stack')].fn = Top.fn

\* in the symbol loop, past the separator test, the character at the cursor
\* is not in the class of the symbol
StrayCharacter ==
    /\ InSymbolLoop
    /\ ~SeparatorStartsAt(Top.inp, Top.pos, Top.seps)
    /\ ~InClass(Top.node, CursorChar)

\* what C17 says of the step taken at a stray character
StrayCharacterStep ==
    IF /\ Top.count >= Top.node.min
       /\ \E first \in FirstSymbols(Top.tail) : InClass(first, CursorChar)
    THEN /\ StepReturns
         /\ ret'.result.pos = Top.pos
         /\ ret'.result.out = Top.out
         /\ ret'.result.satisfied
    ELSE /\ StepStays
         /\ stack'[Len(stack')] = [Top EXCEPT !.pos = @ + 1]

\* C17: while a symbol is consumed (no separator at the cursor) and the
\* character at the cursor is not in its class, the run ends with the cursor
\* left on that character exactly when the count has reached min and the
\* first node of the lookahead, searched through the alternatives of a
\* leading group, accepts the character; in every other case the cursor
\* moves past the character and nothing is emitted for it.
C17_StrayCharacter == [][StrayCharacter => StrayCharacterStep]_vars

\* A{+} has consumed "a" and has just returned with the cursor left on "1",
\* which the alternative 0A of the group after it can begin with
C17_Witness ==
    /\ pc = "scanning" /\ stack # <<>>
    /\ pattern = PatGroupSkip
    /\ input = <<"a", "1">>
    /\ Top.fn = "consumeNodes" /\ Top.i = 1
    /\ Top.nodes[1].type = "symbol" /\ Top.nodes[2].type = "group"
    /\ ret.returned
    /\ ret.result.pos = 1
    /\ ret.result.out = <<"a">>

\* in the symbol loop a known separator starts at the cursor
SeparatorAtCursor ==
    /\ InSymbolLoop
    /\ SeparatorStartsAt(Top.inp, Top.pos, Top.seps)

\* what C18 says of the step taken at a separator
SeparatorStep ==
    /\ StepReturns
    /\ ret'.result.out = Top.out
    /\ ret'.result.satisfied = (Top.count >= Top.node.min)
    /\ \E k \in 1..Len(Top.seps) :
           /\ Top.seps[k] # <<>>
           /\ StartsWith(Top.inp, Top.seps[k], Top.pos)
           /\ ret'.result.pos = Top.pos + Len(Top.seps[k])

\* C18: in contiguous mode, when a known separator starts at the cursor
\* while a symbol has consumed fewer than max characters, the run of the
\* symbol ends there: the cursor is placed just after the separator, no
\* later character is added to the symbol, and the symbol is satisfied iff
\* its count reached min.  So the pattern 0{4}:-:0{4} with the input
\* "12-3456" gives "12".
C18_SeparatorEndsRun ==
    /\ [][SeparatorAtCursor => SeparatorStep]_vars
    /\ []((pc = "formatted" /\ pattern = PatTwoFours /\ input = SeparatorEarly) =>
              (masked = <<"1", "2">> /\ outs = <<<<"1", "2">>>>))

\* the call of the example has returned
C18_Witness ==
    /\ pc = "formatted"
    /\ pattern = PatTwoFours
    /\ input = SeparatorEarly
    /\ masked = <<"1", "2">>

RECURSIVE LeadingNonEmpty(_)
\* the outputs before the first empty one
LeadingNonEmpty(parts) ==
    IF parts = <<>> \/ Head(parts) = <<>> THEN <<>>
    ELSE <<Head(parts)>> \o LeadingNonEmpty(Tail(parts))

RECURSIVE Interleave(_, _, _)
\* parts[k] + separators[k] + parts[k + 1] + ... + the last of parts
Interleave(parts, separators, k) ==
    IF k > Len(parts) THEN <<>>
    ELSE IF k = Len(parts) THEN parts[k]
    ELSE parts[k] \o separators[k] \o Interleave(parts, separators, k + 1)

RECURSIVE FragmentResults(_, _, _, _)
\* the results of the fragments of the AST p from fragment k (1-based) on,
\* when fragment k starts at pos and every later fragment starts where the
\* fragment before it stopped, whether satisfied or not
FragmentResults(p, inp, k, pos) ==
    IF k > Len(p.fragments) THEN <<>>
    ELSE LET r == consumeNodes(p.fragments[k], inp, pos, SepList(p.separators),
                               TailAt(p, k - 1))
         IN  <<r>> \o FragmentResults(p, inp, k + 1, r.pos)

\* the number of results up to and including the first unsatisfied one
UpToFirstUnsatisfied(results) ==
    LET unsatisfied == { k \in 1..Len(results) : ~results[k].satisfied }
    IN  IF unsatisfied = {} THEN Len(results)
        ELSE CHOOSE k \in unsatisfied : \A j \in unsatisfied : k <= j

\* what C19 says of a call that pushed fragmentOutputs and returned output,
\* results being the results of the fragments one after the other
JoinedAsSpecified(fragmentOutputs, output, separators, results) ==
    /\ output = Interleave(LeadingNonEmpty(fragmentOutputs), separators, 1)
    /\ Len(fragmentOutputs) = UpToFirstUnsatisfied(results)
    /\ \A k \in 1..Len(fragmentOutputs) : fragmentOutputs[k] = results[k].out
    /\ \A k \in 1..(Len(fragmentOutputs) - 1) : fragmentOutputs[k] # <<>>

\* C19: in contiguous mode the output is f0 + separators[0] + f1 + ... + fk,
\* f0..fk being the outputs of the leading fragments with non-empty output:
\* separators[i] appears only between two fragments that produced output,
\* the output does not end with an inserted separator, and no fragment after
\* the first unsatisfied one is processed or contributes.
C19_JoinedOutput ==
    (pc = "formatted" /\ mode = "contiguous") =>
        JoinedAsSpecified(outs, masked, parsed.separators,
                          FragmentResults(parsed, ToInput(input), 1, 0))

\* two of three fragments produced output, the second is unsatisfied: one
\* separator is inserted and the third fragment is not processed
C19_Witness ==
    /\ pc = "formatted" /\ mode = "contiguous"
    /\ pattern = PatMixedSeps
    /\ input = <<"a", "-">>
    /\ outs = <<<<"a">>, <<>>>>
    /\ masked = <<"a">>

\* the lengths of the non-empty separators of the pattern that start at
\* position pos of inp
MatchingLengths(inp, pos, separators) ==
    { Len(separators[k]) : k \in { j \in 1..Len(separators) :
          separators[j] # <<>> /\ StartsWith(inp, separators[j], pos) } }

\* the length of the longest of them, 0 when there is none
LongestMatch(inp, pos, separators) ==
    IF MatchingLengths(inp, pos, separators) = {} THEN 0
    ELSE CHOOSE n \in MatchingLengths(inp, pos, separators) :
             \A m \in MatchingLengths(inp, pos, separators) : m <= n

\* the length of the longest separator of the pattern at the cursor of the
\* frame on top
LongestAtCursor == LongestMatch(Top.inp, Top.pos, parsed.separators)

\* the frame on top is consumeNodes in contiguous mode, about to look for a
\* separator before its next node
BeforeNode ==
    /\ pc = "scanning" /\ stack # <<>>
    /\ ~manualSpaceMask(parsed)
    /\ Top.fn = "consumeNodes" /\ ~ret.returned
    /\ Top.satisfied /\ Top.i <= Len(Top.nodes)

\* what C20 says of the step taken before a node: the longest separator at
\* the cursor is consumed, and with none the node is called
SeparatorSkipStep ==
    IF LongestAtCursor > 0
    THEN /\ StepStays
         /\ stack'[Len(stack')] = [Top EXCEPT !.pos = @ + LongestAtCursor]
    ELSE Len(stack') = Len(stack) + 1

\* the frame on top is the symbol loop in contiguous mode, loop condition true
InContiguousSymbolLoop == InSymbolLoop /\ ~manualSpaceMask(parsed)

\* what C20 says of the step taken in the symbol loop
SeparatorMatchStep ==
    IF LongestAtCursor > 0
    THEN StepReturns /\ ret'.result.pos = Top.pos + LongestAtCursor
    ELSE ~StepReturns \/ ret'.result.pos = Top.pos

\* C20: in contiguous mode, when several non-empty separators of the
\* pattern match at the same position of the input, the cursor advances by
\* the length of the longest one, whatever their order in the pattern; an
\* empty separator is never matched.
C20_LongestSeparator ==
    /\ [][BeforeNode => SeparatorSkipStep]_vars
    /\ [][InContiguousSymbolLoop => SeparatorMatchStep]_vars

\* "-" comes before "--" in the pattern; both start at position 1 of "1--",
\* and the symbol 0{2} has just returned with the cursor after "--"
C20_Witness ==
    /\ pc = "scanning" /\ stack # <<>>
    /\ pattern = PatSeparatorPrefix
    /\ parsed.separators = <<<<"-">>, <<"-", "-">>>>
    /\ input = <<"1", "-", "-">>
    /\ MatchingLengths(input, 1, parsed.separators) = {1, 2}
    /\ Top.fn = "consumeNodes"
    /\ ret.returned
    /\ ret.result.out = <<"1">>
    /\ ret.result.pos = 3

(***************************************************************************)
(* The engine compared with reference descriptions of format.              *)
(***************************************************************************)

RECURSIVE NodesFrom(_, _)
\* the nodes of the fragments k, k + 1, ... (1-based) of the AST p, concatenated
NodesFrom(p, k) ==
    IF k > Len(p.fragments) THEN <<>> ELSE p.fragments[k] \o NodesFrom(p, k + 1)

RECURSIVE FullTailLoop(_, _, _, _, _, _)
\* the fragment loop of an engine that hands consumeNodes, as the tail of
\* fragment i (0-based), the nodes of every later fragment
FullTailAfter(p, inp, sepList, i, fragmentsOut, result) ==
    IF ~result.satisfied THEN Append(fragmentsOut, result.out)
    ELSE FullTailLoop(p, inp, sepList, i + 1, result.pos, Append(fragmentsOut, result.out))

FullTailLoop(p, inp, sepList, i, pos, fragmentsOut) ==
    IF i >= Len(p.fragments) THEN fragmentsOut
    ELSE FullTailAfter(p, inp, sepList, i, fragmentsOut,
                       consumeNodes(p.fragments[i + 1], inp, pos, sepList,
                                    NodesFrom(p, i + 2)))

\* the latest call returned what the engine with the full tail returns
SameAsReference(fragmentOutputs) ==
    /\ outs = fragmentOutputs
    /\ masked = joinWithSeparators(fragmentOutputs, parsed.separators)

\* C21: in contiguous mode format returns, for every pattern and input, the
\* result of an engine whose lookahead context while consuming fragment i is
\* the concatenation of the nodes of all the fragments after i.
C21_FullTail ==
    (pc = "formatted" /\ mode = "contiguous") =>
        SameAsReference(FullTailLoop(parsed, ToInput(input), SepList(parsed.separators),
                                     0, 0, <<>>))

\* three fragments: the "+" in the input is the literal of the third
\* fragment, not the first node of the second; 0{+} skips it and goes on
C21_Witness ==
    /\ pc = "formatted" /\ mode = "contiguous"
    /\ pattern = PatThreeTail
    /\ Len(parsed.fragments) = 3
    /\ NodesFrom(parsed, 2) # parsed.fragments[2]
    /\ input = <<"1", "+", "1">>
    /\ masked = <<"1", "1">>

\* the positions (1-based) of inp where a word starts: a character that is
\* not white space, at the start of inp or after white space
WordStarts(inp) ==
    { k \in 1..Len(inp) : ~IsSpace(inp[k]) /\ (k = 1 \/ IsSpace(inp[k - 1])) }

\* the word of inp that starts at k: the characters up to the next white space
WordAt(inp, k) ==
    SubSeq(inp, k, CHOOSE e \in k..Len(inp) :
                       /\ \A j \in k..e : ~IsSpace(inp[j])
                       /\ e = Len(inp) \/ IsSpace(inp[e + 1]))

\* the n-th word of inp (1-based), empty when inp has fewer words
NthWord(inp, n) ==
    IF n > Cardinality(WordStarts(inp)) THEN <<>>
    ELSE WordAt(inp, CHOOSE k \in WordStarts(inp) :
                         Cardinality({ j \in WordStarts(inp) : j < k }) = n - 1)

\* the results of matching the n-th word alone against the n-th fragment,
\* for every fragment of the AST p: no separators, no tail
WordResults(p, inp) ==
    [ n \in 1..Len(p.fragments) |->
          consumeNodes(p.fragments[n], NthWord(inp, n), 0, <<>>, <<>>) ]

RECURSIVE SpaceJoin(_)
\* the parts joined with single spaces
SpaceJoin(parts) ==
    IF parts = <<>> THEN <<>>
    ELSE IF Len(parts) = 1 THEN parts[1]
    ELSE parts[1] \o <<" ">> \o SpaceJoin(Tail(parts))

RECURSIVE WithoutTrailingSpace(_)
\* s without the white space at its end
WithoutTrailingSpace(s) ==
    IF s # <<>> /\ IsSpace(s[Len(s)]) THEN WithoutTrailingSpace(SubSeq(s, 1, Len(s) - 1))
    ELSE s

\* what C22 says of a call that pushed fragmentOutputs and returned output,
\* results being the results of the words against their fragments
WordsAsSpecified(fragmentOutputs, output, results) ==
    /\ Len(fragmentOutputs) = UpToFirstUnsatisfied(results)
    /\ \A k \in 1..Len(fragmentOutputs) : fragmentOutputs[k] = results[k].out
    /\ WithoutTrailingSpace(output) = WithoutTrailingSpace(SpaceJoin(fragmentOutputs))

\* C22: in manual-space mode the raw value is split into words on runs of
\* white space and the output is, up to the handling of the trailing space,
\* the single-space join of the results of matching word i alone against
\* fragment i, up to and including the first unsatisfied fragment: no word
\* is matched against another fragment, no lookahead and no separator
\* skipping are used, a missing word counts as empty and the words beyond
\* the number of fragments are ignored.
C22_WordPerFragment ==
    (pc = "formatted" /\ mode = "manual") =>
        WordsAsSpecified(outs, masked, WordResults(parsed, ToInput(input)))

\* a run of two spaces between two words, and no word for the third fragment
C22_Witness ==
    /\ pc = "formatted" /\ mode = "manual"
    /\ pattern = PatManualCount
    /\ input = <<"a", "a", " ", " ", "1">>
    /\ NthWord(input, 2) = <<"1">> /\ NthWord(input, 3) = <<>>
    /\ outs = <<<<"a", "a">>, <<"1">>, <<>>>>
    /\ masked = <<"a", "a", " ", "1">>

\* three words for two fragments: the third word is ignored
C22_WitnessExtraWord ==
    /\ pc = "formatted" /\ mode = "manual"
    /\ pattern = PatNameOneSpace
    /\ input = ThreeWords
    /\ masked = <<"a", " ", "b">>

(***************************************************************************)
(* The group depth of a pattern.                                           *)
(***************************************************************************)

\* the position (1-based) of the first colon of pat at or after k, 0 if none
NextColon(pat, k) ==
    IF \E j \in k..Len(pat) : pat[j] = ":"
    THEN CHOOSE j \in k..Len(pat) : pat[j] = ":" /\ \A h \in k..(j - 1) : pat[h] # ":"
    ELSE 0

\* pat has the two characters a and b at positions k and k + 1
PairAt(pat, k, a, b) == k + 1 <= Len(pat) /\ pat[k] = a /\ pat[k + 1] = b

RECURSIVE DepthScan(_, _, _)
\* the left-to-right scan of pat from position k (1-based) at group depth
\* depth: "[[" increments the depth and "]]" decrements it, a ":" at depth 0
\* opens a separator that runs to the next ":" and whose text is not
\* scanned.  The verdict is the first defect met, or "balanced".
DepthScan(pat, k, depth) ==
    IF k > Len(pat) THEN (IF depth = 0 THEN "balanced" ELSE "depth not 0 at the end")
    ELSE IF PairAt(pat, k, "[", "[") THEN DepthScan(pat, k + 2, depth + 1)
    ELSE IF PairAt(pat, k, "]", "]")
    THEN (IF depth = 0 THEN "]] at depth 0" ELSE DepthScan(pat, k + 2, depth - 1))
    ELSE IF pat[k] = ":"
    THEN (IF depth > 0 THEN ": at depth > 0"
          ELSE IF NextColon(pat, k + 1) = 0 THEN "separator not closed"
          ELSE DepthScan(pat, NextColon(pat, k + 1) + 1, depth))
    ELSE DepthScan(pat, k + 1, depth)

\* the three defects of the group depth
DepthDefects == { "]] at depth 0", ": at depth > 0", "depth not 0 at the end" }

\* the verdict of the scan of the pattern given to Mask.create
DepthVerdict == IF pattern = Null THEN "no pattern" ELSE DepthScan(pattern, 1, 0)

\* C23: scanning the pattern left to right with a group depth that "[["
\* increments and "]]" decrements, the compile fails if a "]]" occurs at
\* depth 0, if a ":" occurs at depth > 0, or if the depth is not 0 at the end
\* of the pattern; hence in every accepted pattern the group brackets are
\* balanced, the depth never goes negative and no separator lies inside a
\* group.
C23_GroupDepth ==
    Compiled =>
        /\ DepthVerdict \in DepthDefects => ~parsed.ok
        /\ parsed.ok => DepthVerdict = "balanced"

\* the compile of a pattern with a separator inside a group has thrown
C23_Witness ==
    /\ pc = "failed"
    /\ pattern = <<"[", "[", "0", ":", "-", ":", "0", "]", "]">>
    /\ DepthVerdict = ": at depth > 0"
    /\ parsed.error = "Separators are not allowed inside groups"

\* a "]]" at depth 0 once the group before it is closed
C23_WitnessClose ==
    /\ pc = "failed"
    /\ pattern = <<"[", "[", "A", "]", "]", "]", "]">>
    /\ DepthVerdict = "]] at depth 0"

\* a group nested in a group of which only the inner one is closed
C23_WitnessUnclosed ==
    /\ pc = "failed"
    /\ pattern = <<"[", "[", "A", "[", "[", "A", "]", "]">>
    /\ DepthVerdict = "depth not 0 at the end"

\* brackets in the text of a separator are text: the pattern is accepted
C23_WitnessSeparatorText ==
    /\ pc = "ready"
    /\ pattern = <<"0", ":", "]", "]", ":", "A">>
    /\ DepthVerdict = "balanced"
    /\ parsed.separators = << <<"]", "]">> >>

(***************************************************************************)
(* The scan cursor of a format call run step by step.                      *)
(***************************************************************************)

\* format is running in contiguous mode
ScanningContiguous == pc = "scanning" /\ stack # <<>> /\ ~stack[1].manual

\* the position the activation f has reached: pos of formatValue,
\* consumeNodes and consumeSymbol; a group has no cursor of its own beyond
\* its start position, from which every alternative starts
CursorOf(f) == IF f.fn = "consumeGroup" THEN f.startPos ELSE f.pos

\* the position at which a callee of the activation f starts
CalleeStart(f) == CursorOf(f)

\* the cursor of f and the result f holds lie between the start position of
\* f and the end of the input
InsideInput(f) ==
    IF f.fn = "formatValue" THEN 0 <= f.pos /\ f.pos <= Len(ToInput(input))
    ELSE IF f.fn = "consumeGroup"
    THEN /\ 0 <= f.startPos
         /\ f.startPos <= f.best.pos /\ f.best.pos <= Len(f.inp)
         /\ f.inp = ToInput(input)
    ELSE /\ 0 <= f.startPos
         /\ f.startPos <= f.pos /\ f.pos <= Len(f.inp)
         /\ f.inp = ToInput(input)

\* every activation is inside the input, and so is the result just returned
CursorInside ==
    ScanningContiguous =>
        /\ \A k \in 1..Len(stack) : InsideInput(stack[k])
        /\ ret.returned =>
               /\ CalleeStart(Top) <= ret.result.pos
               /\ ret.result.pos <= Len(ToInput(input))
               /\ ret.result.advanced >= 0

\* one step of the call: the activations that stay on the stack do not move
\* back; a callee starts at the cursor of its caller (an alternative at the
\* start position of its group); and the caller of a node or of a fragment
\* goes on from the position the callee returned, or after it
CursorStep ==
    ScanningContiguous =>
        /\ \A k \in 1..Len(stack) :
               k <= Len(stack') => CursorOf(stack'[k]) >= CursorOf(stack[k])
        /\ Len(stack') = Len(stack) + 1 =>
               /\ stack'[Len(stack')].startPos = CalleeStart(Top)
               /\ CursorOf(stack'[Len(stack')]) = CalleeStart(Top)
        /\ (ret.returned /\ Len(stack') = Len(stack) /\ Top.fn # "consumeGroup") =>
               stack'[Len(stack')].pos >= ret.result.pos

\* C24: within one format call in contiguous mode the scan cursor only
\* moves forward and stays inside the input: every node and every fragment
\* starts at or after the position where the previous one ended, every
\* consume result has startPos <= pos <= length of the input, and the only
\* restart to an earlier position is that each alternative of a group starts
\* from the start position of the group.
C24_CursorForward == []CursorInside /\ [][CursorStep]_vars

\* the second alternative of a group starts from the start position of the
\* group although the first alternative ended after it
C24_Witness ==
    /\ ScanningContiguous
    /\ Len(stack) >= 3
    /\ Top.fn = "consumeNodes" /\ Top.pos = Top.startPos /\ Top.i = 1
    /\ stack[Len(stack) - 1].fn = "consumeGroup"
    /\ stack[Len(stack) - 1].a = 2
    /\ stack[Len(stack) - 1].best.pos > Top.startPos
    /\ Top.startPos = stack[Len(stack) - 1].startPos

\* the second fragment starts after the separator the first one ended at
C24_WitnessFragment ==
    /\ ScanningContiguous
    /\ Len(stack) = 2
    /\ stack[1].i = 1 /\ stack[1].pos = 2
    /\ Top.fn = "consumeNodes" /\ Top.startPos = 2 /\ Top.pos = 2 /\ Top.i = 1

(***************************************************************************)
(* The characters of the output.                                           *)
(***************************************************************************)

RECURSIVE IsSubsequence(_, _)
\* the characters of a occur in b, in the order of a
IsSubsequence(a, b) ==
    IF a = <<>> THEN TRUE
    ELSE IF b = <<>> THEN FALSE
    ELSE IF Head(a) = Head(b) THEN IsSubsequence(Tail(a), Tail(b))
    ELSE IsSubsequence(a, Tail(b))

RECURSIVE AllOutputs(_)
\* the fragment outputs one after the other
AllOutputs(fragmentOutputs) ==
    IF fragmentOutputs = <<>> THEN <<>>
    ELSE Head(fragmentOutputs) \o AllOutputs(Tail(fragmentOutputs))

\* the characters of the separators of the AST p
SeparatorChars(p) ==
    UNION { { p.separators[k][j] : j \in 1..Len(p.separators[k]) } :
            k \in 1..Len(p.separators) }

\* the characters of the string s
CharsOf(s) == { s[k] : k \in 1..Len(s) }

\* the characters of the literal symbols of the pattern: neither a letter
\* nor a digit class, nor pattern syntax
LiteralChars == { "-", "+" }

\* C25: in both modes every character of the masked output other than the
\* separators inserted by the join step is taken from the raw input, in
\* input order: the concatenation of the fragment outputs is a subsequence
\* of the raw input; in particular format never emits the character of a
\* literal symbol that the input lacks.
C25_OutputFromInput ==
    (pc = "formatted" /\ outcome = "returned") =>
        /\ IsSubsequence(AllOutputs(outs), ToInput(input))
        /\ CharsOf(masked) \subseteq CharsOf(ToInput(input)) \cup SeparatorChars(parsed)
        /\ \A c \in LiteralChars \ SeparatorChars(parsed) :
               c \in CharsOf(masked) => c \in CharsOf(ToInput(input))

\* the literal "-" of 0{2}A{+}-0 is emitted once the input has it, after a
\* stray digit that is skipped
C25_Witness ==
    /\ pc = "formatted" /\ mode = "contiguous"
    /\ pattern = PatQuantifier
    /\ input = <<"1", "1", "a", "1", "-">>
    /\ masked = <<"1", "1", "a", "-">>
    /\ AllOutputs(outs) = masked

\* the same pattern on an input without "-": the literal is not emitted
C25_WitnessLacking ==
    /\ pc = "formatted" /\ mode = "contiguous"
    /\ pattern = PatQuantifier
    /\ input = <<"1", "1", "a", "1">>
    /\ masked = <<"1", "1", "a">>

\* manual-space mode: the outputs of the words, in the order of the words
C25_WitnessManual ==
    /\ pc = "formatted" /\ mode = "manual"
    /\ pattern = PatManualCount
    /\ input = <<"a", "a", "1", " ", "1", "a">>
    /\ outs = << <<"a", "a">>, <<"1">>, <<>> >>

(***************************************************************************)
(* Satisfied results.                                                      *)
(***************************************************************************)

\* a satisfied result has a non-empty output
NonEmptyIfSatisfied(result) == result.satisfied => result.out # <<>>

\* the results of the call in progress: the result just returned by
\* consumeSymbol, by consumeGroup or by consumeNodes (on an alternative or
\* on a fragment), and the best result held by every group
ResultsInScan ==
    (IF ret.returned THEN {ret.result} ELSE {})
        \cup { stack[k].best : k \in { j \in 1..Len(stack) : stack[j].fn = "consumeGroup" } }

\* C26: every symbol, group, alternative and fragment result whose
\* satisfied flag is true has a non-empty output (every symbol has
\* min >= 1 and every sequence of nodes is non-empty); hence in any format
\* call every processed fragment except possibly the last processed one has
\* a non-empty output, and the join step never stops at an empty fragment
\* that is followed by a non-empty one.
C26_SatisfiedNonEmpty ==
    /\ pc \in {"scanning", "formatted"} =>
           /\ \A node \in SymbolsOfMask(parsed) : node.min >= 1
           /\ \A f \in 1..Len(parsed.fragments) : parsed.fragments[f] # <<>>
    /\ pc = "scanning" => \A result \in ResultsInScan : NonEmptyIfSatisfied(result)
    /\ pc = "formatted" =>
           /\ \A k \in 1..Len(outs) : outs[k] = <<>> => k = Len(outs)
           /\ IsSubsequence(AllOutputs(outs), masked)

\* a group has returned a satisfied result
C26_Witness ==
    /\ pc = "scanning"
    /\ ret.returned /\ ret.result.satisfied /\ ret.result.out # <<>>
    /\ Top.fn = "consumeNodes" /\ Top.i <= Len(Top.nodes)
    /\ Top.nodes[Top.i].type = "group"

\* an alternative has returned an unsatisfied result with an empty output
C26_WitnessUnsatisfied ==
    /\ pc = "scanning"
    /\ Top.fn = "consumeGroup"
    /\ ret.returned /\ ~ret.result.satisfied /\ ret.result.out = <<>>

\* the last processed fragment, and only that one, has an empty output
C26_WitnessLastEmpty ==
    /\ pc = "formatted"
    /\ Len(outs) = 2 /\ outs[1] # <<>> /\ outs[2] = <<>>

(***************************************************************************)
(* format applied to its own output.                                       *)
(***************************************************************************)

\* the string format returns when it is given the string it has just
\* returned, separators included
FormattedAgain == formatValue(parsed, masked).masked

\* C27: format is idempotent on its own output: for every compiled pattern
\* and every raw string v, format(format(v)) = format(v).
C27_Idempotent ==
    (pc = "formatted" /\ outcome = "returned") => FormattedAgain = masked

====
